---- MODULE Spec2Model ----
(***************************************************************************)
(* VoyageAI travel-planning pipeline: the eleven-stage agent chain run by  *)
(* TravelService over one shared TravelGraphState record.                  *)
(*                                                                         *)
(* Money is held as integers in thousandths of a rupee (Milli per rupee),  *)
(* so that round(x, 2) (to 10 thousandths) and the 20 % hard-trim floor    *)
(* are exact.  Catalogue prices are the whole rupees the lookup functions  *)
(* of tools/mock_apis.py return.  The program computes in binary floating  *)
(* point; the model computes the exact quotients, and where a value that   *)
(* is rounded lies exactly half-way between two results the direction is   *)
(* a choice the stage makes (a "tie" bit), because the program's direction *)
(* depends on the binary value it holds.  Products that do not fit 32 bits *)
(* are never formed: MulDiv divides while it multiplies.                   *)
(***************************************************************************)
EXTENDS Integers, Sequences, FiniteSets, TLC

\* ------------------------------------------------------------------ bounds
MaxDest == 2
MaxDuration == 4

\* --------------------------------------------------------- program numbers
DefaultDuration == 5
DefaultTravelers == 1
Milli == 10 ^ 3
CityNameLimit == 50
TotalTolerance == 1

NONE == "none"

\* ------------------------------------------------------------ small helpers
Max(a, b) == IF a >= b THEN a ELSE b
Min(a, b) == IF a <= b THEN a ELSE b
Abs(a) == IF a < 0 THEN 0 - a ELSE a

RECURSIVE SumSeq(_)
SumSeq(s) == IF s = <<>> THEN 0 ELSE Head(s) + SumSeq(Tail(s))

RECURSIVE MinSeq(_)
MinSeq(s) == IF Len(s) = 1 THEN s[1] ELSE Min(s[1], MinSeq(Tail(s)))

RECURSIVE MaxSeq(_)
MaxSeq(s) == IF Len(s) = 1 THEN s[1] ELSE Max(s[1], MaxSeq(Tail(s)))

Range(s) == {s[i] : i \in DOMAIN s}

RECURSIVE Gcd(_, _)
Gcd(a, b) == IF b = 0 THEN a ELSE Gcd(b, a % b)

\* ------------------------------------------------------- exact quotients
\* A quotient is held as [q, r, d]: the value q + r/d with 0 <= r < d.
Div(n, d) == [ q |-> n \div d, r |-> n % d, d |-> d ]

\* a * b / d as a quotient, for a, b >= 0 and d > 0, without forming a * b:
\* b is taken k digits at a time, k as large as keeps k * d below 2^30 (half
\* the largest integer the arithmetic holds),
\* and one binary digit at a time when d is too large for that
RECURSIVE MulDivBy(_, _, _)
MulDivBy(a, b, d) ==
    IF b <= 0 THEN [ q |-> 0, r |-> 0, d |-> d ]
    ELSE LET k == 1073741823 \div d
         IN  IF k >= 2
             THEN LET h == MulDivBy(a, b \div k, d)
                      n == k * h.r + (a % d) * (b % k)
                  IN  [ q |-> k * h.q + (a \div d) * (b % k) + n \div d,
                        r |-> n % d,
                        d |-> d ]
             ELSE LET h == MulDivBy(a, b \div 2, d)
                      up == h.r >= d - h.r
                      dq == 2 * h.q + (IF up THEN 1 ELSE 0)
                      dr == IF up THEN h.r - (d - h.r) ELSE 2 * h.r
                      odd == b % 2 = 1
                      up2 == odd /\ dr >= d - (a % d)
                  IN  [ q |-> dq + (IF odd THEN a \div d ELSE 0)
                                + (IF up2 THEN 1 ELSE 0),
                        r |-> IF ~ odd THEN dr
                              ELSE IF up2 THEN dr - (d - (a % d)) ELSE dr + (a % d),
                        d |-> d ]

\* F applied to v: the value v is computed once and named by F's parameter
Bind(v, F(_)) == F(v)

\* a * b / d as a quotient in lowest terms
MulDiv(a, b, d) ==
    LET g == Gcd(b, d)
        h == Gcd(a, d \div g)
    IN  MulDivBy(a \div h, b \div g, (d \div g) \div h)

\* the quotient lies exactly half-way between two integers
AtTie(x) == x.r = x.d - x.r

\* Python round() of a quotient: the nearest integer; at a tie the binary
\* floating value the program holds decides, and tieUp tells which way
Round(x, tieUp) ==
    IF x.r < x.d - x.r THEN x.q
    ELSE IF x.r > x.d - x.r THEN x.q + 1
    ELSE IF tieUp THEN x.q + 1 ELSE x.q

\* round(n / d) for n >= 0 and d > 0
RoundDiv(n, d, tieUp) == Round(Div(n, d), tieUp)

\* --------------------------------------------------------------- the cities
KnownCities == {"Tokyo", "Kyoto", "Delhi"}
FallbackCity == "A Relaxing Trip Somewhere Warm And Sunny With Friends"
UnknownCity == "Unknown"
DefaultOrigin == "Delhi"
PlannerOrigin == "Your city"

\* str.lower() of the names the model spells: the cities the tables of
\* PlannerAgent, _DISTANCE_KM and _COORDS list, as IntentExtractorAgent writes
\* them (title case), in capitals, and with a blank before or after
LowerTable ==
    ("Tokyo" :> "tokyo") @@ ("Kyoto" :> "kyoto") @@ ("Delhi" :> "delhi") @@
    ("Unknown" :> "unknown") @@ ("Your city" :> "your city") @@
    ("Your City" :> "your city") @@ ("Osaka" :> "osaka") @@
    ("Hiroshima" :> "hiroshima") @@ ("Nara" :> "nara") @@
    ("Paris" :> "paris") @@ ("London" :> "london") @@
    ("Amsterdam" :> "amsterdam") @@ ("Berlin" :> "berlin") @@
    ("Prague" :> "prague") @@ ("Brussels" :> "brussels") @@
    ("Rome" :> "rome") @@ ("Florence" :> "florence") @@
    ("Venice" :> "venice") @@ ("Barcelona" :> "barcelona") @@
    ("Madrid" :> "madrid") @@ ("Vienna" :> "vienna") @@
    ("Budapest" :> "budapest") @@ ("Lisbon" :> "lisbon") @@
    ("Athens" :> "athens") @@ ("Munich" :> "munich") @@
    ("Zurich" :> "zurich") @@ ("Geneva" :> "geneva") @@
    ("Edinburgh" :> "edinburgh") @@ ("Mumbai" :> "mumbai") @@
    ("Bangalore" :> "bangalore") @@ ("Chennai" :> "chennai") @@
    ("Kolkata" :> "kolkata") @@ ("Jaipur" :> "jaipur") @@ ("Goa" :> "goa") @@
    ("Varanasi" :> "varanasi") @@ ("Kochi" :> "kochi") @@
    ("Hyderabad" :> "hyderabad") @@ ("Dubai" :> "dubai") @@
    ("Singapore" :> "singapore") @@ ("Bangkok" :> "bangkok") @@
    ("Bali" :> "bali") @@ ("Kuala Lumpur" :> "kuala lumpur") @@
    ("New York" :> "new york") @@ ("Istanbul" :> "istanbul") @@
    ("Sydney" :> "sydney") @@ ("Cairo" :> "cairo") @@
    ("Nairobi" :> "nairobi") @@ ("Hong Kong" :> "hong kong") @@
    ("Seoul" :> "seoul") @@ ("San Francisco" :> "san francisco") @@
    ("Los Angeles" :> "los angeles") @@ ("DELHI" :> "delhi") @@
    ("TOKYO" :> "tokyo") @@ ("KYOTO" :> "kyoto") @@ ("OSAKA" :> "osaka") @@
    ("PARIS" :> "paris") @@ ("LONDON" :> "london") @@ ("DUBAI" :> "dubai") @@
    ("SINGAPORE" :> "singapore") @@ ("BANGKOK" :> "bangkok") @@
    ("BALI" :> "bali") @@ ("GOA" :> "goa") @@ ("JAIPUR" :> "jaipur") @@
    ("MUMBAI" :> "mumbai") @@ ("BANGALORE" :> "bangalore") @@
    ("KOLKATA" :> "kolkata") @@ ("KUALA LUMPUR" :> "kuala lumpur") @@
    ("NEW YORK" :> "new york") @@ ("ROME" :> "rome") @@
    ("ISTANBUL" :> "istanbul") @@ ("SYDNEY" :> "sydney") @@
    ("CHENNAI" :> "chennai") @@ ("HYDERABAD" :> "hyderabad") @@
    ("AMSTERDAM" :> "amsterdam") @@ ("BERLIN" :> "berlin") @@
    ("VIENNA" :> "vienna") @@ ("ZURICH" :> "zurich") @@ ("CAIRO" :> "cairo") @@
    ("NAIROBI" :> "nairobi") @@ ("HONG KONG" :> "hong kong") @@
    ("SEOUL" :> "seoul") @@ ("BARCELONA" :> "barcelona") @@
    ("MADRID" :> "madrid") @@ ("VARANASI" :> "varanasi") @@
    ("KOCHI" :> "kochi") @@ ("PRAGUE" :> "prague") @@
    ("SAN FRANCISCO" :> "san francisco") @@ ("LOS ANGELES" :> "los angeles") @@
    (" Delhi" :> " delhi") @@ ("Delhi " :> "delhi ") @@
    (" DELHI " :> " delhi ") @@ (" Tokyo" :> " tokyo") @@
    ("Tokyo " :> "tokyo ") @@ (" TOKYO " :> " tokyo ") @@
    (" Kyoto" :> " kyoto") @@ ("Kyoto " :> "kyoto ") @@
    (" KYOTO " :> " kyoto ") @@ (" Osaka" :> " osaka") @@
    ("Osaka " :> "osaka ") @@ (" OSAKA " :> " osaka ") @@
    (" Paris" :> " paris") @@ ("Paris " :> "paris ") @@
    (" PARIS " :> " paris ") @@ (" London" :> " london") @@
    ("London " :> "london ") @@ (" LONDON " :> " london ") @@
    (" Dubai" :> " dubai") @@ ("Dubai " :> "dubai ") @@
    (" DUBAI " :> " dubai ") @@ (" Singapore" :> " singapore") @@
    ("Singapore " :> "singapore ") @@ (" SINGAPORE " :> " singapore ") @@
    (" Bangkok" :> " bangkok") @@ ("Bangkok " :> "bangkok ") @@
    (" BANGKOK " :> " bangkok ") @@ (" Bali" :> " bali") @@
    ("Bali " :> "bali ") @@ (" BALI " :> " bali ") @@ (" Goa" :> " goa") @@
    ("Goa " :> "goa ") @@ (" GOA " :> " goa ") @@ (" Jaipur" :> " jaipur") @@
    ("Jaipur " :> "jaipur ") @@ (" JAIPUR " :> " jaipur ") @@
    (" Mumbai" :> " mumbai") @@ ("Mumbai " :> "mumbai ") @@
    (" MUMBAI " :> " mumbai ") @@ (" Bangalore" :> " bangalore") @@
    ("Bangalore " :> "bangalore ") @@ (" BANGALORE " :> " bangalore ") @@
    (" Kolkata" :> " kolkata") @@ ("Kolkata " :> "kolkata ") @@
    (" KOLKATA " :> " kolkata ") @@ (" Kuala Lumpur" :> " kuala lumpur") @@
    ("Kuala Lumpur " :> "kuala lumpur ") @@
    (" KUALA LUMPUR " :> " kuala lumpur ") @@ (" New York" :> " new york") @@
    ("New York " :> "new york ") @@ (" NEW YORK " :> " new york ") @@
    (" Rome" :> " rome") @@ ("Rome " :> "rome ") @@ (" ROME " :> " rome ") @@
    (" Istanbul" :> " istanbul") @@ ("Istanbul " :> "istanbul ") @@
    (" ISTANBUL " :> " istanbul ") @@ (" Sydney" :> " sydney") @@
    ("Sydney " :> "sydney ") @@ (" SYDNEY " :> " sydney ") @@
    (" Chennai" :> " chennai") @@ ("Chennai " :> "chennai ") @@
    (" CHENNAI " :> " chennai ") @@ (" Hyderabad" :> " hyderabad") @@
    ("Hyderabad " :> "hyderabad ") @@ (" HYDERABAD " :> " hyderabad ") @@
    (" Amsterdam" :> " amsterdam") @@ ("Amsterdam " :> "amsterdam ") @@
    (" AMSTERDAM " :> " amsterdam ") @@ (" Berlin" :> " berlin") @@
    ("Berlin " :> "berlin ") @@ (" BERLIN " :> " berlin ") @@
    (" Vienna" :> " vienna") @@ ("Vienna " :> "vienna ") @@
    (" VIENNA " :> " vienna ") @@ (" Zurich" :> " zurich") @@
    ("Zurich " :> "zurich ") @@ (" ZURICH " :> " zurich ") @@
    (" Cairo" :> " cairo") @@ ("Cairo " :> "cairo ") @@
    (" CAIRO " :> " cairo ") @@ (" Nairobi" :> " nairobi") @@
    ("Nairobi " :> "nairobi ") @@ (" NAIROBI " :> " nairobi ") @@
    (" Hong Kong" :> " hong kong") @@ ("Hong Kong " :> "hong kong ") @@
    (" HONG KONG " :> " hong kong ") @@ (" Seoul" :> " seoul") @@
    ("Seoul " :> "seoul ") @@ (" SEOUL " :> " seoul ") @@
    (" Barcelona" :> " barcelona") @@ ("Barcelona " :> "barcelona ") @@
    (" BARCELONA " :> " barcelona ") @@ (" Madrid" :> " madrid") @@
    ("Madrid " :> "madrid ") @@ (" MADRID " :> " madrid ") @@
    (" Varanasi" :> " varanasi") @@ ("Varanasi " :> "varanasi ") @@
    (" VARANASI " :> " varanasi ") @@ (" Kochi" :> " kochi") @@
    ("Kochi " :> "kochi ") @@ (" KOCHI " :> " kochi ") @@
    (" Prague" :> " prague") @@ ("Prague " :> "prague ") @@
    (" PRAGUE " :> " prague ") @@ (" San Francisco" :> " san francisco") @@
    ("San Francisco " :> "san francisco ") @@
    (" SAN FRANCISCO " :> " san francisco ") @@
    (" Los Angeles" :> " los angeles") @@ ("Los Angeles " :> "los angeles ") @@
    (" LOS ANGELES " :> " los angeles ")

\* a name that is lower-case already is returned as it is
Lower(c) ==
    IF c \in DOMAIN LowerTable THEN LowerTable[c]
    ELSE IF c = FallbackCity
         THEN "a relaxing trip somewhere warm and sunny with friends"
    ELSE c

\* str.strip() of the lower-case names spelled with a blank before or after
StripTable ==
    (" delhi" :> "delhi") @@ ("delhi " :> "delhi") @@ (" delhi " :> "delhi") @@
    (" tokyo" :> "tokyo") @@ ("tokyo " :> "tokyo") @@ (" tokyo " :> "tokyo") @@
    (" kyoto" :> "kyoto") @@ ("kyoto " :> "kyoto") @@ (" kyoto " :> "kyoto") @@
    (" osaka" :> "osaka") @@ ("osaka " :> "osaka") @@ (" osaka " :> "osaka") @@
    (" paris" :> "paris") @@ ("paris " :> "paris") @@ (" paris " :> "paris") @@
    (" london" :> "london") @@ ("london " :> "london") @@
    (" london " :> "london") @@ (" dubai" :> "dubai") @@
    ("dubai " :> "dubai") @@ (" dubai " :> "dubai") @@
    (" singapore" :> "singapore") @@ ("singapore " :> "singapore") @@
    (" singapore " :> "singapore") @@ (" bangkok" :> "bangkok") @@
    ("bangkok " :> "bangkok") @@ (" bangkok " :> "bangkok") @@
    (" bali" :> "bali") @@ ("bali " :> "bali") @@ (" bali " :> "bali") @@
    (" goa" :> "goa") @@ ("goa " :> "goa") @@ (" goa " :> "goa") @@
    (" jaipur" :> "jaipur") @@ ("jaipur " :> "jaipur") @@
    (" jaipur " :> "jaipur") @@ (" mumbai" :> "mumbai") @@
    ("mumbai " :> "mumbai") @@ (" mumbai " :> "mumbai") @@
    (" bangalore" :> "bangalore") @@ ("bangalore " :> "bangalore") @@
    (" bangalore " :> "bangalore") @@ (" kolkata" :> "kolkata") @@
    ("kolkata " :> "kolkata") @@ (" kolkata " :> "kolkata") @@
    (" kuala lumpur" :> "kuala lumpur") @@
    ("kuala lumpur " :> "kuala lumpur") @@
    (" kuala lumpur " :> "kuala lumpur") @@ (" new york" :> "new york") @@
    ("new york " :> "new york") @@ (" new york " :> "new york") @@
    (" rome" :> "rome") @@ ("rome " :> "rome") @@ (" rome " :> "rome") @@
    (" istanbul" :> "istanbul") @@ ("istanbul " :> "istanbul") @@
    (" istanbul " :> "istanbul") @@ (" sydney" :> "sydney") @@
    ("sydney " :> "sydney") @@ (" sydney " :> "sydney") @@
    (" chennai" :> "chennai") @@ ("chennai " :> "chennai") @@
    (" chennai " :> "chennai") @@ (" hyderabad" :> "hyderabad") @@
    ("hyderabad " :> "hyderabad") @@ (" hyderabad " :> "hyderabad") @@
    (" amsterdam" :> "amsterdam") @@ ("amsterdam " :> "amsterdam") @@
    (" amsterdam " :> "amsterdam") @@ (" berlin" :> "berlin") @@
    ("berlin " :> "berlin") @@ (" berlin " :> "berlin") @@
    (" vienna" :> "vienna") @@ ("vienna " :> "vienna") @@
    (" vienna " :> "vienna") @@ (" zurich" :> "zurich") @@
    ("zurich " :> "zurich") @@ (" zurich " :> "zurich") @@
    (" cairo" :> "cairo") @@ ("cairo " :> "cairo") @@ (" cairo " :> "cairo") @@
    (" nairobi" :> "nairobi") @@ ("nairobi " :> "nairobi") @@
    (" nairobi " :> "nairobi") @@ (" hong kong" :> "hong kong") @@
    ("hong kong " :> "hong kong") @@ (" hong kong " :> "hong kong") @@
    (" seoul" :> "seoul") @@ ("seoul " :> "seoul") @@ (" seoul " :> "seoul") @@
    (" barcelona" :> "barcelona") @@ ("barcelona " :> "barcelona") @@
    (" barcelona " :> "barcelona") @@ (" madrid" :> "madrid") @@
    ("madrid " :> "madrid") @@ (" madrid " :> "madrid") @@
    (" varanasi" :> "varanasi") @@ ("varanasi " :> "varanasi") @@
    (" varanasi " :> "varanasi") @@ (" kochi" :> "kochi") @@
    ("kochi " :> "kochi") @@ (" kochi " :> "kochi") @@
    (" prague" :> "prague") @@ ("prague " :> "prague") @@
    (" prague " :> "prague") @@ (" san francisco" :> "san francisco") @@
    ("san francisco " :> "san francisco") @@
    (" san francisco " :> "san francisco") @@
    (" los angeles" :> "los angeles") @@ ("los angeles " :> "los angeles") @@
    (" los angeles " :> "los angeles")

\* a name without surrounding blanks is returned as it is
Strip(c) == IF c \in DOMAIN StripTable THEN StripTable[c] ELSE c

CityLen(c) ==
    CASE c = FallbackCity -> 53
      [] c = "Your city" -> 9
      [] c = "Unknown" -> 7
      [] c = "A" -> 1
      [] OTHER -> 5

\* d.city[:50].split()[0]
FirstWord(c) == IF c = FallbackCity THEN "A" ELSE c

\* ------------------------------------------- lookup collaborators (mock_apis)
\* _city_hash(key) % 6000 for the lower-cased keys the model can form: the
\* names of the cities and every origin + destination pair of them.  The hash
\* is the first 32 bits of an MD5 digest; every use reduces it modulo a divisor
\* of 6000 (2000, 1500, 1000, 500, 300, 200, 150, 40, 15, 12).
CityHashResidue(key) ==
    CASE key = "tokyo" -> 4479
      [] key = "kyoto" -> 4371
      [] key = "delhi" -> 2343
      [] key = "unknown" -> 144
      [] key = "a relaxing trip somewhere warm and sunny with friends" -> 5129
      [] key = "your city" -> 3619
      [] key = "a" -> 3177
      [] key = "tokyotokyo" -> 3636
      [] key = "tokyokyoto" -> 684
      [] key = "tokyodelhi" -> 838
      [] key = "tokyounknown" -> 2995
      [] key = "tokyoa relaxing trip somewhere warm and sunny with friends" -> 720
      [] key = "tokyoyour city" -> 5947
      [] key = "tokyoa" -> 2264
      [] key = "kyototokyo" -> 5870
      [] key = "kyotokyoto" -> 3104
      [] key = "kyotodelhi" -> 2459
      [] key = "kyotounknown" -> 3678
      [] key = "kyotoa relaxing trip somewhere warm and sunny with friends" -> 3593
      [] key = "kyotoyour city" -> 4146
      [] key = "kyotoa" -> 288
      [] key = "delhitokyo" -> 3186
      [] key = "delhikyoto" -> 1916
      [] key = "delhidelhi" -> 1722
      [] key = "delhiunknown" -> 4927
      [] key = "delhia relaxing trip somewhere warm and sunny with friends" -> 3991
      [] key = "delhiyour city" -> 2544
      [] key = "delhia" -> 5289
      [] key = "unknowntokyo" -> 5301
      [] key = "unknownkyoto" -> 3643
      [] key = "unknowndelhi" -> 3990
      [] key = "unknownunknown" -> 696
      [] key = "unknowna relaxing trip somewhere warm and sunny with friends" -> 2878
      [] key = "unknownyour city" -> 47
      [] key = "unknowna" -> 1197
      [] key = "a relaxing trip somewhere warm and sunny with friendstokyo" -> 3419
      [] key = "a relaxing trip somewhere warm and sunny with friendskyoto" -> 5150
      [] key = "a relaxing trip somewhere warm and sunny with friendsdelhi" -> 3320
      [] key = "a relaxing trip somewhere warm and sunny with friendsunknown" -> 3087
      [] key = "a relaxing trip somewhere warm and sunny with friendsa relaxing trip somewhere warm and sunny with friends" -> 2298
      [] key = "a relaxing trip somewhere warm and sunny with friendsyour city" -> 146
      [] key = "a relaxing trip somewhere warm and sunny with friendsa" -> 521
      [] key = "your citytokyo" -> 2975
      [] key = "your citykyoto" -> 2345
      [] key = "your citydelhi" -> 2647
      [] key = "your cityunknown" -> 5751
      [] key = "your citya relaxing trip somewhere warm and sunny with friends" -> 5629
      [] key = "your cityyour city" -> 4235
      [] key = "your citya" -> 808
      [] key = "atokyo" -> 4083
      [] key = "akyoto" -> 2037
      [] key = "adelhi" -> 2154
      [] key = "aunknown" -> 1584
      [] key = "aa relaxing trip somewhere warm and sunny with friends" -> 963
      [] key = "ayour city" -> 2084
      [] key = "aa" -> 2474
      [] OTHER -> 0

_city_hash_mod(key, m) == CityHashResidue(key) % m

\* str.title() of the names of the model
Title(c) ==
    CASE Lower(c) = "tokyo" -> "Tokyo"
      [] Lower(c) = "kyoto" -> "Kyoto"
      [] Lower(c) = "delhi" -> "Delhi"
      [] Lower(c) = "unknown" -> "Unknown"
      [] Lower(c) = "your city" -> "Your City"
      [] Lower(c) = Lower(FallbackCity) -> FallbackCity
      [] OTHER -> c

\* _FLIGHT_BASES_INR.get(destination.lower(), 35000)
_FLIGHT_BASES_INR(key) ==
    CASE key = "tokyo" -> 52000
      [] key = "delhi" -> 3500
      [] OTHER -> 35000

\* the price_inr of the three options, in rupees; the bases are multiples of
\* 100, so base * 0.92, base * 1.05 and base * 0.78 are whole
search_flights(origin, destination) ==
    LET base == _FLIGHT_BASES_INR(Lower(destination))
        key == Lower(origin) \o Lower(destination)
    IN  << (base * 92) \div 100 + _city_hash_mod(key, 2000),
           (base * 105) \div 100 + _city_hash_mod(key, 1500),
           (base * 78) \div 100 + _city_hash_mod(key, 1000) >>

\* _HOTEL_BASES_INR.get(destination.lower(), 4500)
_HOTEL_BASES_INR(key) ==
    CASE key = "tokyo" -> 8500
      [] key = "delhi" -> 4000
      [] OTHER -> 4500

HotelRec(n, r, t) == [name |-> n, nightly_rate_inr |-> r, type |-> t]

\* variant: a city without an entry of its own gets no hotel
search_hotels_NoDefault(destination) ==
    LET base == _HOTEL_BASES_INR(Lower(destination))
        key == Lower(destination)
    IN  IF key \notin {"tokyo", "delhi"} THEN <<>>
        ELSE << HotelRec(Title(destination) \o " Grand Palace",
                         (base * 180) \div 100 + _city_hash_mod(key, 500),
                         "luxury hotel"),
                HotelRec(Title(destination) \o " Central Suites",
                         (base * 115) \div 100 + _city_hash_mod(key, 300),
                         "boutique hotel"),
                HotelRec(Title(destination) \o " Budget Inn",
                         (base * 65) \div 100 + _city_hash_mod(key, 200),
                         "budget hotel"),
                HotelRec(Title(destination) \o " Backpacker Hostel",
                         (base * 30) \div 100 + _city_hash_mod(key, 150),
                         "hostel") >>

search_hotels(destination) ==
    LET base == _HOTEL_BASES_INR(Lower(destination))
        key == Lower(destination)
    IN  << HotelRec(Title(destination) \o " Grand Palace",
                    (base * 180) \div 100 + _city_hash_mod(key, 500),
                    "luxury hotel"),
           HotelRec(Title(destination) \o " Central Suites",
                    (base * 115) \div 100 + _city_hash_mod(key, 300),
                    "boutique hotel"),
           HotelRec(Title(destination) \o " Budget Inn",
                    (base * 65) \div 100 + _city_hash_mod(key, 200),
                    "budget hotel"),
           HotelRec(Title(destination) \o " Backpacker Hostel",
                    (base * 30) \div 100 + _city_hash_mod(key, 150),
                    "hostel") >>

Act(n, c, s, t) == [name |-> n, cost_inr |-> c, score |-> s, type |-> t]

\* _DEFAULT_ACTIVITIES; costs in rupees, scores in tenths (8.5 -> 85); the
\* last name is written without the acute accent the source has on "cafe"
_DEFAULT_ACTIVITIES ==
    << Act("City walking tour", 0, 85, "free"),
       Act("Cultural heritage museum", 800, 82, "culture"),
       Act("Local food market exploration", 1200, 90, "food"),
       Act("Historical landmark visit", 600, 86, "culture"),
       Act("Sunset viewpoint", 0, 88, "free"),
       Act("Local cooking class", 2000, 84, "experience"),
       Act("Day trip to nearby attraction", 3000, 87, "adventure"),
       Act("Street art & cafe hopping", 500, 81, "free") >>

\* _CITY_ACTIVITIES.get(key, _DEFAULT_ACTIVITIES)
search_activities(destination) ==
    CASE Lower(destination) = "tokyo" ->
            << Act("Shibuya Crossing & Harajuku walk", 0, 93, "free"),
               Act("Tsukiji Outer Market food tour", 3500, 95, "food"),
               Act("TeamLab Borderless", 2800, 90, "culture"),
               Act("Meiji Shrine & Yoyogi Park", 0, 88, "free"),
               Act("Akihabara electronics district", 500, 82, "shopping"),
               Act("Senso-ji Temple, Asakusa", 0, 91, "culture"),
               Act("Robot Restaurant show", 6500, 85, "entertainment"),
               Act("Day trip to Mt. Fuji", 5000, 94, "adventure") >>
      [] Lower(destination) = "kyoto" ->
            << Act("Fushimi Inari Shrine (1000 torii gates)", 0, 97, "free"),
               Act("Arashiyama Bamboo Grove walk", 0, 95, "free"),
               Act("Kinkaku-ji (Golden Pavilion)", 350, 94, "culture"),
               Act("Nishiki Market food tour", 2500, 93, "food"),
               Act("Geisha district (Gion) evening walk", 0, 92, "free"),
               Act("Traditional tea ceremony", 2000, 90, "culture"),
               Act("Philosopher's Path & Nanzen-ji", 300, 88, "free"),
               Act("Nijo Castle tour", 500, 86, "culture") >>
      [] Lower(destination) = "delhi" ->
            << Act("Red Fort & Chandni Chowk walk", 500, 93, "culture"),
               Act("Qutub Minar visit", 200, 90, "culture"),
               Act("Old Delhi street food tour", 600, 95, "food"),
               Act("Humayun's Tomb", 300, 91, "culture"),
               Act("India Gate & Connaught Place", 0, 87, "free"),
               Act("Lotus Temple & Akshardham", 0, 89, "free") >>
      [] OTHER -> _DEFAULT_ACTIVITIES

\* _DAILY_TRANSPORT_INR.get(key, 400), in rupees
get_daily_transport_cost(destination) ==
    CASE Lower(destination) = "tokyo" -> 800
      [] Lower(destination) = "kyoto" -> 600
      [] Lower(destination) = "delhi" -> 200
      [] OTHER -> 400

\* _REMOTE_WORK.get(key, [two made-up spots that carry the city's name])
get_remote_work_spots(destination) ==
    CASE Lower(destination) = "tokyo" ->
            << "Starbucks Reserve Roastery Nakameguro", "FabCafe Shibuya",
               "WeWork Roppongi" >>
      [] Lower(destination) = "kyoto" ->
            << "Len Kyoto Kawaramachi", "Cafe Bibliotic Hello!",
               "Impact Hub Kyoto" >>
      [] Lower(destination) = "delhi" ->
            << "91springboard Okhla", "Innov8 Connaught Place",
               "WeWork Gurugram" >>
      [] OTHER ->
            << "Coworking space in " \o Title(destination),
               Title(destination) \o " public library WiFi zone" >>

get_country_for_city(city) ==
    CASE Lower(city) = "tokyo" -> "japan"
      [] Lower(city) = "kyoto" -> "japan"
      [] Lower(city) = "delhi" -> "india"
      [] OTHER -> NONE

\* ------------------------------------------------------------- data model
\* UserIntent (schemas/travel.py); budgets are whole rupees, 0 = not given.
UserIntent(origin, dests, duration, budget, travelers, accom) ==
    [ origin_city |-> origin,
      destinations |-> dests,
      country |-> NONE,
      duration_days |-> duration,
      travel_month |-> NONE,
      budget_total_inr |-> budget,
      budget_range_max |-> 0,
      trip_type |-> <<>>,
      traveler_count |-> travelers,
      accommodation_preferences |-> accom,
      interests |-> {} ]

DefaultIntent == UserIntent(NONE, <<>>, DefaultDuration, 0, DefaultTravelers, {})

DayItinerary(d, c, acts, cost, note) ==
    [ day |-> d, city |-> c, activities |-> acts,
      estimated_cost_inr |-> cost, weather_note |-> note ]

StayRecommendation(c, t, b) ==
    [ city |-> c, stay_type |-> t, budget_per_night_inr |-> b ]

CostBreakdown(f, a, x, t, tot) ==
    [ flights_estimated |-> f, accommodation_estimated |-> a,
      activities_estimated |-> x, transport_estimated |-> t,
      total_estimated |-> tot ]

TransportPlan(passes, route) ==
    [ recommended_passes |-> passes, route_order |-> route ]

\* state['logs'].append(f'[{self.name}] ...'): the line is kept as the agent's name
log(state, agent) == [state EXCEPT !.logs = Append(@, agent)]

\* intent.destinations or ['Unknown']
DestinationsOrUnknown(intent) ==
    IF intent.destinations = <<>> THEN <<UnknownCity>> ELSE intent.destinations

\* intent.budget_range_inr.max or intent.budget_total_inr or None  (0 = falsy)
budget_max(intent) ==
    IF intent.budget_range_max # 0 THEN intent.budget_range_max
    ELSE intent.budget_total_inr

\* ------------------------------------------------- Agent 3: PlannerAgent
ArrivalNote == "Arrival & check-in day"

JapanCities == {"tokyo", "osaka", "kyoto", "hiroshima", "nara"}
EuCities == {"paris", "london", "amsterdam", "berlin", "prague", "brussels",
             "rome", "florence", "venice", "barcelona", "madrid", "vienna",
             "budapest", "lisbon", "athens", "munich", "zurich", "geneva"}
UkCities == {"london", "edinburgh"}
IndiaCities == {"delhi", "mumbai", "bangalore", "chennai", "kolkata",
                "jaipur", "goa", "varanasi", "kochi", "hyderabad"}

PlannerBaseDays(duration, n_dest) ==
    LET min_per_dest == Max(1, duration \div (n_dest * 2))
    IN  Max(duration \div n_dest, min_per_dest)

\* variant: the remainder days are dropped instead of front-loaded
PlannerCityDays_NoRemainder(duration, n_dest, idx) ==
    LET base_days == PlannerBaseDays(duration, n_dest)
    IN  IF base_days < 1 THEN 1 ELSE base_days

\* variant: the remainder days go to the latest destinations
PlannerCityDays_BackLoaded(duration, n_dest, idx) ==
    LET base_days == PlannerBaseDays(duration, n_dest)
        remainder == duration - (base_days * n_dest)
        city_days == base_days + (IF idx >= n_dest - remainder THEN 1 ELSE 0)
    IN  IF city_days < 1 THEN 1 ELSE city_days

\* idx counts from 0, as enumerate(destinations) does
PlannerCityDays(duration, n_dest, idx) ==
    LET base_days == PlannerBaseDays(duration, n_dest)
        remainder == duration - (base_days * n_dest)
        city_days == base_days + (IF idx < remainder THEN 1 ELSE 0)
    IN  IF city_days < 1 THEN 1 ELSE city_days

\* variant: the days of a destination are numbered from day_counter + 1
RECURSIVE PlannerDays_OffByOne(_, _, _, _)
PlannerDays_OffByOne(destinations, duration, idx, day_counter) ==
    IF idx >= Len(destinations) THEN <<>>
    ELSE LET city_days == PlannerCityDays(duration, Len(destinations), idx)
             block == [ d \in 1..city_days |->
                          DayItinerary(day_counter + d,
                                       destinations[idx + 1], <<>>, 0,
                                       IF d = 1 /\ idx > 0 /\ Len(destinations) > 1
                                       THEN ArrivalNote ELSE "") ]
         IN  block \o PlannerDays_OffByOne(destinations, duration, idx + 1,
                                           day_counter + city_days)

RECURSIVE PlannerDays(_, _, _, _)
PlannerDays(destinations, duration, idx, day_counter) ==
    IF idx >= Len(destinations) THEN <<>>
    ELSE LET city_days == PlannerCityDays(duration, Len(destinations), idx)
             block == [ d \in 1..city_days |->
                          DayItinerary(day_counter + (d - 1),
                                       destinations[idx + 1], <<>>, 0,
                                       IF d = 1 /\ idx > 0 /\ Len(destinations) > 1
                                       THEN ArrivalNote ELSE "") ]
         IN  block \o PlannerDays(destinations, duration, idx + 1,
                                  day_counter + city_days)

PlannerPasses(destinations) ==
    LET dest_set == {Lower(destinations[i]) : i \in DOMAIN destinations}
        japan == IF Cardinality(dest_set \cap JapanCities) >= 2
                 THEN <<"Japan Rail Pass (7-day)">>
                 ELSE IF dest_set \cap JapanCities # {}
                 THEN <<"Suica / Pasmo IC Card">> ELSE <<>>
        eu == IF Cardinality(dest_set \cap EuCities) >= 3
              THEN <<"Eurail Global Pass">>
              ELSE IF Cardinality(dest_set \cap EuCities) = 2
              THEN <<"Eurail 2-Country Pass">> ELSE <<>>
        uk == IF dest_set \cap UkCities # {}
              THEN <<"Oyster Card / Contactless">> ELSE <<>>
        india == IF Cardinality(dest_set \cap IndiaCities) >= 3
                 THEN <<"IndiGo/SpiceJet multi-city domestic pass">> ELSE <<>>
        metro == [ i \in DOMAIN destinations |-> <<"metro card", destinations[i]>> ]
    IN  japan \o eu \o uk \o india \o metro

PlannerRun(state) ==
    LET intent == state.intent
        destinations == DestinationsOrUnknown(intent)
        origin == IF intent.origin_city = NONE THEN PlannerOrigin
                  ELSE intent.origin_city
        route_order == <<origin>> \o destinations \o <<origin>>
        day_by_day == PlannerDays(destinations, intent.duration_days, 0, 1)
        s1 == [state EXCEPT
                 !.day_by_day_itinerary = day_by_day,
                 !.transport_plan = TransportPlan(PlannerPasses(destinations),
                                                  route_order),
                 !.route_strategy =
                     [ kind |-> IF Len(destinations) = 1
                                THEN "Direct round-trip" ELSE "Multi-city loop",
                       route |-> route_order ],
                 !.summary = [ duration |-> intent.duration_days,
                               n_dest |-> Len(destinations),
                               travelers |-> intent.traveler_count ]]
    IN  log(s1, "PlannerAgent")

\* ------------------------------------------ FlightIntelligenceAgent
\* the legs searched: origin -> d1 -> ... -> dn, then dn -> origin
FlightLegs(intent) ==
    LET origin == IF intent.origin_city = NONE THEN DefaultOrigin
                  ELSE intent.origin_city
        destinations == DestinationsOrUnknown(intent)
    IN  [ i \in 1..(Len(destinations) + 1) |->
            IF i = 1 THEN <<origin, destinations[1]>>
            ELSE IF i <= Len(destinations)
                 THEN <<destinations[i - 1], destinations[i]>>
                 ELSE <<destinations[Len(destinations)], origin>> ]

\* min(flights, key=price) raises ValueError on an empty list
FlightRaises(legOptions) == \E i \in DOMAIN legOptions : legOptions[i] = <<>>

RECURSIVE Concat(_)
Concat(ss) == IF ss = <<>> THEN <<>> ELSE Head(ss) \o Concat(Tail(ss))

FlightRun(state, legOptions) ==
    LET total_flight_cost ==
            SumSeq([ i \in DOMAIN legOptions |-> MinSeq(legOptions[i]) ])
        s1 == [state EXCEPT
                 !.flight_options = Concat(legOptions),
                 !.cost_breakdown.flights_estimated = total_flight_cost * Milli]
    IN  log(s1, "FlightIntelligenceAgent")

\* ------------------------------------------- HotelIntelligenceAgent
HotelNights(duration, n_dest, idx) ==
    LET base_nights == duration \div n_dest
        remainder == duration % n_dest
    IN  base_nights + (IF idx < remainder THEN 1 ELSE 0)

\* first index holding the largest / smallest rate (max() and min() keep the
\* first of equal elements)
FirstMaxIdx(rates) ==
    CHOOSE i \in DOMAIN rates :
        /\ \A j \in DOMAIN rates : rates[j] <= rates[i]
        /\ \A j \in 1..(i - 1) : rates[j] < rates[i]

FirstMinIdx(rates) ==
    CHOOSE i \in DOMAIN rates :
        /\ \A j \in DOMAIN rates : rates[j] >= rates[i]
        /\ \A j \in 1..(i - 1) : rates[j] > rates[i]

\* position in the list of the element that sorted() (stable, ascending)
\* places at 0-based rank k
StableRankIdx(rates, k) ==
    CHOOSE i \in DOMAIN rates :
        Cardinality({ j \in DOMAIN rates :
                        rates[j] < rates[i] \/ (rates[j] = rates[i] /\ j < i) }) = k

\* hotels[0] / max() / min() raise on an empty list
PickHotelRaises(hotels) == hotels = <<>>

_pick_hotel(hotels, prefs) ==
    LET rates == [ i \in DOMAIN hotels |-> hotels[i].nightly_rate_inr ]
    IN  IF "luxury hotel" \in prefs \/ "5-star hotel" \in prefs
        THEN hotels[FirstMaxIdx(rates)]
        ELSE IF "hostel" \in prefs \/ "budget hotel" \in prefs
        THEN hotels[FirstMinIdx(rates)]
        ELSE hotels[StableRankIdx(rates, Len(hotels) \div 2)]

HotelRaises(destHotels) == \E i \in DOMAIN destHotels : PickHotelRaises(destHotels[i])

HotelRun(state, destHotels) ==
    LET intent == state.intent
        destinations == DestinationsOrUnknown(intent)
        n_dest == Len(destinations)
        prefs == intent.accommodation_preferences
        chosen == [ i \in DOMAIN destinations |-> _pick_hotel(destHotels[i], prefs) ]
        cost == [ i \in DOMAIN destinations |->
                    chosen[i].nightly_rate_inr
                      * HotelNights(intent.duration_days, n_dest, i - 1) ]
        stays == [ i \in DOMAIN destinations |->
                     StayRecommendation(destinations[i], chosen[i].type,
                                        chosen[i].nightly_rate_inr * Milli) ]
        s1 == [state EXCEPT
                 !.hotel_options = Concat(destHotels),
                 !.stay_recommendations = stays,
                 !.cost_breakdown.accommodation_estimated = SumSeq(cost) * Milli]
    IN  log(s1, "HotelIntelligenceAgent")

\* ---------------------------------------------- Agent 4: ExperienceAgent
\* _sort_key: (type_match, score), packed as type_match * 1000 + score
ExperienceSortKey(a, interests) ==
    (IF a.type \in interests THEN 1000 ELSE 0) + a.score

\* sorted(activities, key=_sort_key, reverse=True): descending, equal keys
\* keep their catalogue order
ExperienceRanked(activities, interests) ==
    LET key == [ i \in DOMAIN activities |->
                   ExperienceSortKey(activities[i], interests) ]
        rank(i) == Cardinality({ j \in DOMAIN activities :
                                   key[j] > key[i] \/ (key[j] = key[i] /\ j < i) })
    IN  [ k \in DOMAIN activities |->
            activities[CHOOSE i \in DOMAIN activities : rank(i) = k - 1] ]

\* trip_type in ('relaxation', 'honeymoon'): trip_type is the List[str] field
\* of UserIntent, and a list is equal to no str
is_relaxation(trip_type) ==
    \E t \in {"relaxation", "honeymoon"} : [ list |-> trip_type ] = [ str |-> t ]

ExperiencePerDay(is_arrival_day, relaxation, pool_len) ==
    IF is_arrival_day THEN 2
    ELSE IF relaxation THEN 2
    ELSE IF pool_len <= 4 THEN Min(3, pool_len) ELSE 3

Names(acts) == { acts[i].name : i \in DOMAIN acts }

\* variant: the first pass does not look at the used names
RECURSIVE ExperienceFirstPass_IgnoreUsed(_, _, _, _, _, _)
ExperienceFirstPass_IgnoreUsed(ranked, offset, used_names, n_per_day, i, chosen) ==
    IF i >= Len(ranked) \/ Len(chosen) >= n_per_day THEN chosen
    ELSE ExperienceFirstPass_IgnoreUsed(
             ranked, offset, used_names, n_per_day, i + 1,
             Append(chosen, ranked[((offset + i) % Len(ranked)) + 1]))

\* first pass: unseen activities from the offset position
RECURSIVE ExperienceFirstPass(_, _, _, _, _, _)
ExperienceFirstPass(ranked, offset, used_names, n_per_day, i, chosen) ==
    IF i >= Len(ranked) \/ Len(chosen) >= n_per_day THEN chosen
    ELSE LET act == ranked[((offset + i) % Len(ranked)) + 1]
         IN  ExperienceFirstPass(ranked, offset, used_names, n_per_day, i + 1,
                                 IF act.name \notin used_names
                                 THEN Append(chosen, act) ELSE chosen)

\* fill: highest ranked not already chosen today
RECURSIVE ExperienceFill(_, _, _, _)
ExperienceFill(ranked, n_per_day, k, chosen) ==
    IF k > Len(ranked) \/ Len(chosen) >= n_per_day THEN chosen
    ELSE ExperienceFill(ranked, n_per_day, k + 1,
                        IF ranked[k].name \notin Names(chosen)
                        THEN Append(chosen, ranked[k]) ELSE chosen)

ExperienceChoose(ranked, offset, used_names, n_per_day) ==
    LET first == ExperienceFirstPass(ranked, offset, used_names, n_per_day, 0, <<>>)
    IN  IF Len(first) < n_per_day
        THEN ExperienceFill(ranked, n_per_day, 1, first) ELSE first

\* one iteration of the loop over the itinerary; acc carries the caches
ExperienceDay(acc, itinerary, day_idx, intent, pools) ==
    LET day_item == itinerary[day_idx + 1]
        city == day_item.city
        ck == Lower(city)
        fresh == ck \notin Range(acc.fetched)
        ranked == ExperienceRanked(pools[ck], intent.interests)
        is_arrival_day == day_idx > 0 /\ Lower(itinerary[day_idx].city) # ck
        n_per_day == ExperiencePerDay(is_arrival_day,
                                      is_relaxation(intent.trip_type), Len(ranked))
        used_names == acc.city_used[ck]
        offset == acc.city_offset[ck]
        chosen == ExperienceChoose(ranked, offset, used_names, n_per_day)
        used2 == used_names \cup Names(chosen)
        day_cost == SumSeq([ i \in DOMAIN chosen |-> chosen[i].cost_inr ])
        spots == get_remote_work_spots(city)
    IN  [ fetched |-> IF fresh THEN Append(acc.fetched, ck) ELSE acc.fetched,
          experiences |-> IF fresh
                          THEN acc.experiences
                                 \o [ i \in DOMAIN pools[ck] |-> pools[ck][i].name ]
                          ELSE acc.experiences,
          city_used |-> [acc.city_used EXCEPT
                           ![ck] = IF Cardinality(used2) >= Len(ranked)
                                   THEN {} ELSE used2],
          city_offset |-> [acc.city_offset EXCEPT ![ck] = offset + Len(chosen)],
          days |-> Append(acc.days,
                          [day_item EXCEPT
                             !.activities = [ i \in DOMAIN chosen |-> chosen[i].name ],
                             !.estimated_cost_inr = day_cost * Milli]),
          total_activity_cost |-> acc.total_activity_cost + day_cost,
          total_transport_cost |-> acc.total_transport_cost
                                     + get_daily_transport_cost(city),
          remote_spots |-> IF fresh /\ spots # <<>>
                           THEN Append(acc.remote_spots,
                                       [city |-> city, recommendations |-> spots])
                           ELSE acc.remote_spots ]

RECURSIVE ExperienceLoop(_, _, _, _, _)
ExperienceLoop(acc, itinerary, day_idx, intent, pools) ==
    IF day_idx >= Len(itinerary) THEN acc
    ELSE ExperienceLoop(ExperienceDay(acc, itinerary, day_idx, intent, pools),
                        itinerary, day_idx + 1, intent, pools)

\* the loop's bookkeeping day by day: accs[d + 1] is what the loop holds
\* after its first d days (accs[1]: before the loop)
RECURSIVE ExperienceTrace(_, _, _, _)
ExperienceTrace(accs, itinerary, intent, pools) ==
    IF Len(accs) > Len(itinerary) THEN accs
    ELSE ExperienceTrace(
             Append(accs, ExperienceDay(accs[Len(accs)], itinerary,
                                        Len(accs) - 1, intent, pools)),
             itinerary, intent, pools)

\* the trace that starts from the empty caches the loop starts with
ExperienceAfter(itinerary, intent, pools) ==
    ExperienceTrace(<< [ fetched |-> <<>>, experiences |-> <<>>,
                         city_used |-> [ ck \in DOMAIN pools |-> {} ],
                         city_offset |-> [ ck \in DOMAIN pools |-> 0 ],
                         days |-> <<>>,
                         total_activity_cost |-> 0, total_transport_cost |-> 0,
                         remote_spots |-> <<>> ] >>,
                    itinerary, intent, pools)

ExperienceRun(state, pools) ==
    Bind(state.day_by_day_itinerary, LAMBDA itinerary :
    Bind({ Lower(itinerary[i].city) : i \in DOMAIN itinerary }, LAMBDA cks :
    Bind([ fetched |-> <<>>, experiences |-> <<>>,
           city_used |-> [ ck \in cks |-> {} ],
           city_offset |-> [ ck \in cks |-> 0 ],
           days |-> <<>>,
           total_activity_cost |-> 0, total_transport_cost |-> 0,
           remote_spots |-> <<>> ], LAMBDA acc0 :
    Bind(ExperienceLoop(acc0, itinerary, 0, state.intent, pools), LAMBDA acc :
    Bind([state EXCEPT
            !.day_by_day_itinerary = acc.days,
            !.experiences = acc.experiences,
            !.cost_breakdown.activities_estimated = acc.total_activity_cost * Milli,
            !.cost_breakdown.transport_estimated = acc.total_transport_cost * Milli,
            !.remote_work_spots = acc.remote_spots], LAMBDA s1 :
        log(s1, "ExperienceAgent") )))))

\* --------------------------------------------- BudgetOptimizerAgent
_FLEX_ORDER == << "flights_estimated", "transport_estimated",
                 "accommodation_estimated", "activities_estimated" >>

\* variant: flights are given the transport share
_MIN_SHARE_FlightsLikeTransport(cat) ==
    CASE cat = "flights_estimated" -> 60
      [] cat = "transport_estimated" -> 60
      [] cat = "accommodation_estimated" -> 40
      [] cat = "activities_estimated" -> 25

\* variant: the activities share is read as the fraction that may be cut
_MIN_SHARE_ActivitiesKeep75(cat) ==
    CASE cat = "flights_estimated" -> 95
      [] cat = "transport_estimated" -> 60
      [] cat = "accommodation_estimated" -> 40
      [] cat = "activities_estimated" -> 75

\* _MIN_SHARE, in per cent
_MIN_SHARE(cat) ==
    CASE cat = "flights_estimated" -> 95
      [] cat = "transport_estimated" -> 60
      [] cat = "accommodation_estimated" -> 40
      [] cat = "activities_estimated" -> 25

\* variant: the stay is trimmed before the activities
HardTrimOrder_AccommodationFirst ==
    << "accommodation_estimated", "activities_estimated",
       "transport_estimated" >>

HardTrimOrder == << "activities_estimated", "accommodation_estimated",
                    "transport_estimated" >>
HardTrimFloorPct == 20

\* the places where BudgetOptimizerAgent.run rounds a floating value: the
\* four reductions of the first pass, the three calls of _sum, the per-night
\* and per-day amounts after each pass, and the score; and the place where
\* the hard trim subtracts from `remaining` a cut equal to it
BudgetTieSites ==
    Range(_FLEX_ORDER)
      \cup { "sum_raw", "sum_first", "sum_trim", "night_first", "day_first",
             "night_trim", "day_trim", "score", "trim_fit" }

\* flights + accommodation + activities + transport, in hundredths
SumQuot(cb) ==
    Div(cb.flights_estimated + cb.accommodation_estimated
          + cb.activities_estimated + cb.transport_estimated, 10)

\* round(flights + accommodation + activities + transport, 2)
_sum(cb, tieUp) == Round(SumQuot(cb), tieUp) * 10

\* 1 - _MIN_SHARE[cat], in twentieths (0.05, 0.40, 0.60, 0.75)
FlexTwentieths(cat) == (100 - _MIN_SHARE(cat)) \div 5

\* the largest amount that divides the four buckets
BudgetUnit(cb) ==
    Gcd(Gcd(Max(cb.flights_estimated, 0), Max(cb.transport_estimated, 0)),
        Gcd(Max(cb.accommodation_estimated, 0), Max(cb.activities_estimated, 0)))

\* headroom = original - original * _MIN_SHARE[cat], counted in twentieths of
\* BudgetUnit(cb); a bucket with no positive headroom is not in the pool
Headroom(cb, cat) ==
    IF cb[cat] <= 0 THEN 0
    ELSE (cb[cat] \div BudgetUnit(cb)) * FlexTwentieths(cat)

\* total_headroom = sum(h for _, h in pool), in the unit of Headroom
TotalHeadroom(cb) ==
    SumSeq([ i \in DOMAIN _FLEX_ORDER |-> Headroom(cb, _FLEX_ORDER[i]) ])

\* min(overshoot / total_headroom, 1.0) = 1.0: the overshoot (in thousandths)
\* is at least the total headroom
ScaleIsOne(cb, budget) ==
    LET th == MulDiv(TotalHeadroom(cb), BudgetUnit(cb), 20)
    IN  cb.total_estimated - budget >= th.q + (IF th.r > 0 THEN 1 ELSE 0)

\* headroom * scale of a bucket of the pool, in hundredths of a rupee, before
\* it is rounded
Reduction(cb, budget, cat) ==
    IF ScaleIsOne(cb, budget)
    THEN MulDiv(cb[cat], FlexTwentieths(cat), 200)
    ELSE MulDiv(Headroom(cb, cat), cb.total_estimated - budget,
                10 * TotalHeadroom(cb))

\* Step 2, first pass, of a breakdown over its ceiling.  budget is budget_max
\* in thousandths; ties[cat] tells which way round(headroom * scale, 2) falls
\* when the product is exactly half-way between two hundredths, and
\* ties["sum_first"] the same for the total taken after the pass.
BudgetFirstPass(cb, budget, ties) ==
    Bind([ cat \in Range(_FLEX_ORDER) |->
             IF Headroom(cb, cat) <= 0 THEN 0
             ELSE Round(Reduction(cb, budget, cat), ties[cat]) * 10 ],
         LAMBDA reduction :
    Bind(IF TotalHeadroom(cb) > 0
         THEN [ cb EXCEPT
                  !.flights_estimated = @ - reduction["flights_estimated"],
                  !.transport_estimated = @ - reduction["transport_estimated"],
                  !.accommodation_estimated = @ - reduction["accommodation_estimated"],
                  !.activities_estimated = @ - reduction["activities_estimated"] ]
         ELSE cb, LAMBDA cut :
        [ cut EXCEPT !.total_estimated = _sum(cut, ties["sum_first"]) ] ))

BudgetFirstPassRounds(cb) == IF TotalHeadroom(cb) > 0 THEN 1 ELSE 0

\* the reductions of the first pass that stand at a tie
FirstPassTies(cb, budget) ==
    { cat \in Range(_FLEX_ORDER) :
        Headroom(cb, cat) > 0 /\ AtTie(Reduction(cb, budget, cat)) }

\* Second pass: acc = [cb, remaining, rounds, residue, fit], one category at
\* a time.  The buckets that reach it are whole rupees less a reduction
\* rounded to 2 decimals, so floor = current * 0.20 is a whole number of
\* thousandths.
\* can_cut and remaining are binary floats: where the two are the same
\* decimal amount, cut = min(can_cut, remaining) is either of them, and
\* "remaining -= cut" leaves 0 or a residue of about 1e-16.  leftover tells
\* which; acc.residue holds the residue (acc.remaining, in thousandths, is 0
\* then), and acc.fit tells that the run met such a cut.  With a residue the
\* loop does not break: the next bucket that can be cut is cut by the
\* residue, which counts as a round and leaves its thousandths as they are.
RECURSIVE BudgetHardTrim(_, _, _)
BudgetHardTrim(acc, k, leftover) ==
    IF k > Len(HardTrimOrder) \/ (acc.remaining <= 0 /\ ~ acc.residue) THEN acc
    ELSE LET cat == HardTrimOrder[k]
             current == acc.cb[cat]
             floor == (current \div 100) * HardTrimFloorPct
                        + ((current % 100) * HardTrimFloorPct) \div 100
             can_cut == current - floor
             cut == IF acc.residue THEN 0 ELSE Min(can_cut, acc.remaining)
             fit == ~ acc.residue /\ can_cut = acc.remaining
         IN  BudgetHardTrim(
                 IF can_cut > 0
                 THEN [ cb |-> [acc.cb EXCEPT ![cat] = current - cut],
                        remaining |-> acc.remaining - cut,
                        rounds |-> acc.rounds + 1,
                        residue |-> fit /\ leftover,
                        fit |-> acc.fit \/ fit ]
                 ELSE acc,
                 k + 1, leftover)

\* total_nights of _propagate_accommodation
TotalNights(state) ==
    LET stays == state.stay_recommendations
    IN  SumSeq([ i \in DOMAIN stays |->
                   HotelNights(state.intent.duration_days, Len(stays), i - 1) ])

\* per_night = cb.accommodation_estimated / total_nights, in rupees
PerNight(state, cb) ==
    Div(cb.accommodation_estimated, TotalNights(state) * Milli)

\* _propagate_accommodation
_propagate_accommodation(state, cb, tieUp) ==
    LET stays == state.stay_recommendations
    IN  IF stays = <<>> THEN state
        ELSE IF TotalNights(state) > 0
        THEN [state EXCEPT !.stay_recommendations =
                [ i \in DOMAIN stays |->
                    [stays[i] EXCEPT !.budget_per_night_inr =
                        Round(PerNight(state, cb), tieUp) * Milli] ]]
        ELSE state

\* per_day = cb.activities_estimated / len(days), in rupees
PerDay(state, cb) ==
    Div(cb.activities_estimated, Len(state.day_by_day_itinerary) * Milli)

\* _propagate_activities
_propagate_activities(state, cb, tieUp) ==
    LET days == state.day_by_day_itinerary
    IN  IF days = <<>> THEN state
        ELSE [state EXCEPT !.day_by_day_itinerary =
                [ i \in DOMAIN days |->
                    [days[i] EXCEPT !.estimated_cost_inr =
                        Round(PerDay(state, cb), tieUp) * Milli] ]]

Propagate(state, cb, nightUp, dayUp) ==
    _propagate_activities(_propagate_accommodation(state, cb, nightUp), cb, dayUp)

\* the two amounts of a propagation that stand at a tie
PropagateTies(state, cb, night, day) ==
    (IF state.stay_recommendations # <<>> /\ TotalNights(state) > 0
        /\ AtTie(PerNight(state, cb)) THEN {night} ELSE {})
    \cup (IF state.day_by_day_itinerary # <<>> /\ AtTie(PerDay(state, cb))
          THEN {day} ELSE {})

\* 15 * ratio (ratio <= 1.0) or 30 * ratio, in tenths of a point, before it
\* is rounded
ScoreQuot(total, budget) ==
    IF total <= budget THEN MulDiv(total, 150, budget)
    ELSE MulDiv(total, 300, budget)

\* variant: the under-budget score is not floored at 5.0
OptimizationScore_NoFloor(total, budget, tieUp) ==
    IF budget > 0
    THEN IF total <= budget
         THEN Round(ScoreQuot(total, budget), tieUp) - 50
         ELSE Max(0, 400 - Round(ScoreQuot(total, budget), ~ tieUp))
    ELSE 75

\* Step 3: the score, in tenths, of a total and a ceiling in thousandths;
\* tieUp is the direction of the score, which falls as 30 * ratio rises
OptimizationScore(total, budget, tieUp) ==
    IF budget > 0
    THEN IF total <= budget
         THEN Max(50, Round(ScoreQuot(total, budget), tieUp) - 50)
         ELSE Max(0, 400 - Round(ScoreQuot(total, budget), ~ tieUp))
    ELSE 75

\* variant: the ceiling is not tested for being set
OverBudget_NoCeilingTest(total, budget) == total > budget

\* "if budget_max and budget_max > 0 and cb.total_estimated > budget_max"
OverBudget(total, budget) == budget > 0 /\ total > budget

\* the optimizer without its write of state['total_cost'] and of the total
BudgetOptimize_NoTotal(state, ties) ==
    [ state |-> log(state, "BudgetOptimizerAgent"),
      before |-> state.cost_breakdown,
      after_first |-> state.cost_breakdown,
      over |-> FALSE,
      rounds |-> 0,
      at_tie |-> {} ]

\* the whole of BudgetOptimizerAgent.run; the record returned carries the
\* new state, the breakdown as it stood between the two passes, and the
\* roundings of the run that stood at a tie
BudgetOptimize(state, ties) ==
    Bind(budget_max(state.intent) * Milli, LAMBDA budget :
    Bind([ state.cost_breakdown EXCEPT !.total_estimated =
             _sum(state.cost_breakdown, ties["sum_raw"]) ], LAMBDA cb0 :
    Bind(OverBudget(cb0.total_estimated, budget), LAMBDA over :
    Bind(BudgetFirstPass(cb0, budget, ties), LAMBDA cb1 :
    Bind(IF over THEN BudgetFirstPassRounds(cb0) ELSE 0, LAMBDA rounds1 :
    Bind(IF rounds1 = 1
         THEN Propagate(state, cb1, ties["night_first"], ties["day_first"])
         ELSE state, LAMBDA s1 :
    Bind(over /\ cb1.total_estimated > budget, LAMBDA still :
    Bind(BudgetHardTrim([ cb |-> cb1,
                          remaining |-> cb1.total_estimated - budget,
                          rounds |-> rounds1,
                          residue |-> FALSE,
                          fit |-> FALSE ], 1, ties["trim_fit"]), LAMBDA trim :
    Bind([ trim.cb EXCEPT !.total_estimated =
             _sum(trim.cb, ties["sum_trim"]) ], LAMBDA cb2 :
    Bind(IF still THEN cb2 ELSE IF over THEN cb1 ELSE cb0, LAMBDA cbF :
    Bind(IF still
         THEN Propagate(s1, cb2, ties["night_trim"], ties["day_trim"])
         ELSE s1, LAMBDA s2 :
    Bind(IF still THEN trim.rounds ELSE rounds1, LAMBDA rounds :
    Bind(OptimizationScore(cbF.total_estimated, budget, ties["score"]),
         LAMBDA score :
      [ state |->
          log([ s2 EXCEPT
                  !.cost_breakdown = cbF,
                  !.total_cost = cbF.total_estimated,
                  !.optimization_score = score,
                  !.optimization_summary =
                      [ total |-> cbF.total_estimated,
                        verdict |-> IF budget = 0 THEN "no budget"
                                    ELSE IF budget - cbF.total_estimated >= 0
                                    THEN "under budget" ELSE "over budget",
                        rounds |-> IF budget = 0 THEN 0 ELSE rounds,
                        score |-> score ] ],
              "BudgetOptimizerAgent"),
        before |-> cb0,
        after_first |-> IF over THEN cb1 ELSE cb0,
        over |-> over,
        rounds |-> rounds,
        at_tie |->
          (IF AtTie(SumQuot(cb0)) THEN {"sum_raw"} ELSE {})
          \cup (IF rounds1 = 1
                THEN FirstPassTies(cb0, budget)
                       \cup PropagateTies(state, cb1, "night_first", "day_first")
                ELSE {})
          \cup (IF over /\ AtTie(SumQuot(cb1)) THEN {"sum_first"} ELSE {})
          \cup (IF still
                THEN (IF AtTie(SumQuot(cb2)) THEN {"sum_trim"} ELSE {})
                       \cup (IF trim.fit THEN {"trim_fit"} ELSE {})
                       \cup PropagateTies(s1, cb2, "night_trim", "day_trim")
                ELSE {})
          \cup (IF budget > 0 /\ AtTie(ScoreQuot(cbF.total_estimated, budget))
                THEN {"score"} ELSE {}) ] )))))))))))))

\* ------------------------------------------------- ValidationAgent
\* 1 - keep the first entry of every day number
RECURSIVE Dedupe(_, _)
Dedupe(itinerary, seen) ==
    IF itinerary = <<>> THEN <<>>
    ELSE IF Head(itinerary).day \in seen
         THEN Dedupe(Tail(itinerary), seen)
         ELSE <<Head(itinerary)>>
                \o Dedupe(Tail(itinerary), seen \cup {Head(itinerary).day})

HasDuplicateDays(itinerary) ==
    Len(itinerary) # Cardinality({ itinerary[i].day : i \in DOMAIN itinerary })

\* variant: the transport bucket is left out of the recomputed total
ValidationRecalc_NoTransport(cb) ==
    cb.flights_estimated + cb.accommodation_estimated + cb.activities_estimated

\* 3 - the recomputed total
ValidationRecalc(cb) ==
    cb.flights_estimated + cb.accommodation_estimated
      + cb.activities_estimated + cb.transport_estimated

ValidationRun(state) ==
    LET intent == state.intent
        it0 == state.day_by_day_itinerary
        dup == HasDuplicateDays(it0)
        it1 == IF dup THEN Dedupe(it0, {}) ELSE it0
        long == { i \in DOMAIN it1 : CityLen(it1[i].city) > CityNameLimit }
        it2 == [ i \in DOMAIN it1 |->
                   IF i \in long
                   THEN [it1[i] EXCEPT !.city = FirstWord(it1[i].city)]
                   ELSE it1[i] ]
        cb == state.cost_breakdown
        recalc == ValidationRecalc(cb)
        fix == Abs(recalc - cb.total_estimated) > TotalTolerance * Milli
        cb1 == IF fix THEN [cb EXCEPT !.total_estimated = recalc] ELSE cb
        bm == budget_max(intent) * Milli
        empty_days == { i \in DOMAIN it2 : it2[i].activities = <<>> }
        errors ==
            (IF dup THEN <<"Duplicate day numbers detected; deduplicated.">> ELSE <<>>)
            \o [ k \in 1..Cardinality(long) |-> "city name truncated." ]
            \o (IF fix THEN <<"Cost breakdown total was inconsistent; recalculated.">>
                ELSE <<>>)
            \o (IF bm # 0 /\ cb1.total_estimated > bm
                THEN <<"Plan still exceeds budget">> ELSE <<>>)
            \o (IF intent.destinations = <<>>
                THEN <<"No destinations could be extracted from the prompt.">>
                ELSE <<>>)
            \o (IF empty_days # {} THEN <<"Days with no activities">> ELSE <<>>)
        s1 == [state EXCEPT
                 !.day_by_day_itinerary = it2,
                 !.cost_breakdown = cb1,
                 !.validation_errors = errors]
    IN  log(s1, "ValidationAgent")

\* ------------------------------------------------------- MemoryAgent
MemoryKey(intent) == << "trip", intent.origin_city, intent.destinations >>

\* store.query(vector, top_k=2): the model holds at most two trip patterns
MemoryQuery(items) == items

MemoryRun(state, similar) ==
    log([state EXCEPT !.memory_context = similar], "MemoryAgent")

\* ------------------------------------------ Agent 1: IntentExtractorAgent
\* The prompt is held as what the regular expressions of the extractor find
\* in it: the known cities in match order, the city of a "from X" phrase, the
\* number of a "<n> days" phrase and of a "<n> people" phrase (each <<n>>, or
\* <<>> when the prompt has no such phrase), the amount of a budget phrase,
\* the accommodation keywords, the trip types of the TRIP_TYPES keywords in
\* table order, the month of a month name, and whether any word characters
\* are left once punctuation is stripped.  When no known city is found the
\* destination is the whole text, stripped of punctuation and title-cased:
\* the one such text of the model (see PromptOK) gives FallbackCity.
IntentRun(state) ==
    LET p == state.raw_prompt
        found == IF p.cities = <<>> /\ p.has_words THEN <<FallbackCity>>
                 ELSE p.cities
        destinations ==
            IF p.origin = NONE THEN found
            ELSE SelectSeq(found, LAMBDA d : Lower(d) # Lower(p.origin))
        intent == [ UserIntent(p.origin, destinations,
                               IF p.days = <<>> THEN DefaultDuration ELSE p.days[1],
                               p.budget,
                               IF p.people = <<>> THEN DefaultTravelers
                               ELSE p.people[1],
                               p.accommodation)
                    EXCEPT !.trip_type = p.trip_type,
                           !.travel_month = p.month ]
    IN  log([state EXCEPT !.intent = intent], "IntentExtractorAgent")

\* ---------------------------------------------- CarbonFootprintAgent
DefaultDistanceKm == 3500
ShortHaulKm == 1500
MediumHaulKm == 3500

\* _DISTANCE_KM: for a city of departure, the listed cities of arrival and their
\* distance in km
_DISTANCE_KM ==
    ("delhi" :>
        (("tokyo" :> 5840) @@ ("kyoto" :> 5720) @@ ("osaka" :> 5700) @@
         ("paris" :> 6600) @@ ("london" :> 6720) @@ ("dubai" :> 2200) @@
         ("singapore" :> 4150) @@ ("bangkok" :> 2920) @@ ("bali" :> 5300) @@
         ("goa" :> 1550) @@ ("jaipur" :> 270) @@ ("mumbai" :> 1150) @@
         ("bangalore" :> 1750) @@ ("kolkata" :> 1310) @@
         ("kuala lumpur" :> 4300) @@ ("new york" :> 11750) @@
         ("rome" :> 5900) @@ ("istanbul" :> 4550) @@ ("sydney" :> 10400) @@
         ("chennai" :> 1760) @@ ("hyderabad" :> 1260) @@
         ("amsterdam" :> 6350) @@ ("berlin" :> 5800) @@ ("vienna" :> 5500) @@
         ("zurich" :> 6100) @@ ("cairo" :> 4500) @@ ("nairobi" :> 5300) @@
         ("hong kong" :> 3780) @@ ("seoul" :> 4660))) @@
    ("mumbai" :>
        (("tokyo" :> 6740) @@ ("delhi" :> 1150) @@ ("goa" :> 450) @@
         ("dubai" :> 1930) @@ ("singapore" :> 3920) @@ ("bangkok" :> 3550) @@
         ("london" :> 7200) @@ ("paris" :> 6600) @@ ("jaipur" :> 950) @@
         ("bangalore" :> 840) @@ ("bali" :> 5600) @@
         ("kuala lumpur" :> 4070) @@ ("kolkata" :> 1650) @@
         ("chennai" :> 1030) @@ ("hyderabad" :> 620) @@
         ("new york" :> 12560) @@ ("rome" :> 6300) @@ ("hong kong" :> 4470) @@
         ("sydney" :> 10100))) @@
    ("bangalore" :>
        (("delhi" :> 1750) @@ ("mumbai" :> 840) @@ ("chennai" :> 290) @@
         ("kolkata" :> 1560) @@ ("goa" :> 520) @@ ("hyderabad" :> 500) @@
         ("singapore" :> 3230) @@ ("dubai" :> 2690) @@ ("london" :> 8100) @@
         ("paris" :> 7850) @@ ("bangkok" :> 3140))) @@
    ("kolkata" :>
        (("delhi" :> 1310) @@ ("mumbai" :> 1650) @@ ("bangkok" :> 1880) @@
         ("singapore" :> 3120) @@ ("hong kong" :> 2920) @@
         ("kuala lumpur" :> 2840) @@ ("tokyo" :> 5140))) @@
    ("london" :>
        (("paris" :> 340) @@ ("amsterdam" :> 360) @@ ("berlin" :> 930) @@
         ("rome" :> 1430) @@ ("istanbul" :> 2510) @@ ("dubai" :> 5500) @@
         ("new york" :> 5570) @@ ("tokyo" :> 9560) @@ ("sydney" :> 17000) @@
         ("singapore" :> 10850) @@ ("bangkok" :> 9540) @@ ("delhi" :> 6720) @@
         ("mumbai" :> 7200) @@ ("hong kong" :> 9640) @@ ("cairo" :> 3520))) @@
    ("paris" :>
        (("london" :> 340) @@ ("amsterdam" :> 430) @@ ("berlin" :> 880) @@
         ("rome" :> 1100) @@ ("istanbul" :> 2240) @@ ("dubai" :> 5250) @@
         ("new york" :> 5840) @@ ("tokyo" :> 9710) @@ ("delhi" :> 6600) @@
         ("mumbai" :> 6600) @@ ("barcelona" :> 830) @@ ("madrid" :> 1050) @@
         ("zurich" :> 490) @@ ("vienna" :> 1030))) @@
    ("tokyo" :>
        (("osaka" :> 400) @@ ("kyoto" :> 375) @@ ("seoul" :> 1160) @@
         ("hong kong" :> 2900) @@ ("singapore" :> 5310) @@
         ("bangkok" :> 4600) @@ ("sydney" :> 7820) @@ ("new york" :> 10840) @@
         ("london" :> 9560) @@ ("paris" :> 9710) @@ ("delhi" :> 5840) @@
         ("mumbai" :> 6740))) @@
    ("new york" :>
        (("london" :> 5570) @@ ("paris" :> 5840) @@ ("tokyo" :> 10840) @@
         ("delhi" :> 11750) @@ ("dubai" :> 11020) @@ ("sydney" :> 16000) @@
         ("rome" :> 6880) @@ ("berlin" :> 6380))) @@
    ("dubai" :>
        (("delhi" :> 2200) @@ ("mumbai" :> 1930) @@ ("london" :> 5500) @@
         ("paris" :> 5250) @@ ("singapore" :> 5850) @@ ("bangkok" :> 4900) @@
         ("tokyo" :> 7950) @@ ("sydney" :> 12050) @@ ("istanbul" :> 3000) @@
         ("cairo" :> 2400) @@ ("nairobi" :> 3350))) @@
    ("singapore" :>
        (("bangkok" :> 1420) @@ ("kuala lumpur" :> 320) @@ ("bali" :> 2600) @@
         ("hong kong" :> 2580) @@ ("tokyo" :> 5310) @@ ("sydney" :> 6290) @@
         ("delhi" :> 4150) @@ ("mumbai" :> 3920) @@ ("london" :> 10850) @@
         ("dubai" :> 5850)))

\* _COORDS: latitude and longitude, in ten-thousandths of a degree
_COORDS ==
    ("delhi" :> <<286139, 772090>>) @@ ("mumbai" :> <<190760, 728777>>) @@
    ("bangalore" :> <<129716, 775946>>) @@ ("chennai" :> <<130827, 802707>>) @@
    ("kolkata" :> <<225726, 883639>>) @@ ("hyderabad" :> <<173850, 784867>>) @@
    ("jaipur" :> <<269124, 757873>>) @@ ("goa" :> <<152993, 741240>>) @@
    ("varanasi" :> <<253176, 829739>>) @@ ("kochi" :> <<99312, 762673>>) @@
    ("tokyo" :> <<356762, 1396503>>) @@ ("osaka" :> <<346937, 1355023>>) @@
    ("kyoto" :> <<350116, 1357681>>) @@ ("seoul" :> <<375665, 1269780>>) @@
    ("hong kong" :> <<223193, 1141694>>) @@
    ("singapore" :> <<13521, 1038198>>) @@
    ("bangkok" :> <<137563, 1005018>>) @@ ("bali" :> <<-83405, 1150920>>) @@
    ("kuala lumpur" :> <<31390, 1016869>>) @@
    ("london" :> <<515074, -1278>>) @@ ("paris" :> <<488566, 23522>>) @@
    ("amsterdam" :> <<523676, 49041>>) @@ ("berlin" :> <<525200, 134050>>) @@
    ("rome" :> <<419028, 124964>>) @@ ("barcelona" :> <<413874, 21686>>) @@
    ("madrid" :> <<404168, -37038>>) @@ ("vienna" :> <<482082, 163738>>) @@
    ("prague" :> <<500755, 144378>>) @@ ("zurich" :> <<473769, 85417>>) @@
    ("istanbul" :> <<410082, 289784>>) @@ ("cairo" :> <<300444, 312357>>) @@
    ("nairobi" :> <<-12921, 368219>>) @@ ("dubai" :> <<252048, 552708>>) @@
    ("new york" :> <<407128, -740060>>) @@
    ("sydney" :> <<-338688, 1512093>>) @@
    ("san francisco" :> <<377749, -1224194>>) @@
    ("los angeles" :> <<340522, -1182437>>)

\* round(_haversine(*_COORDS[o], *_COORDS[d]), 0) for every pair of _COORDS: the
\* great-circle distance of the two points on a sphere of radius 6371 km,
\* which is the same in both directions.  Each pair is held once, under the
\* city _COORDS lists first.
HaversineKm ==
    ("delhi" :>
        (("mumbai" :> 1148) @@ ("bangalore" :> 1740) @@ ("chennai" :> 1756) @@
         ("kolkata" :> 1304) @@ ("hyderabad" :> 1255) @@ ("jaipur" :> 235) @@
         ("goa" :> 1514) @@ ("varanasi" :> 679) @@ ("kochi" :> 2080) @@
         ("tokyo" :> 5834) @@ ("osaka" :> 5483) @@ ("kyoto" :> 5501) @@
         ("seoul" :> 4687) @@ ("hong kong" :> 3761) @@ ("singapore" :> 4142) @@
         ("bangkok" :> 2916) @@ ("bali" :> 5779) @@ ("kuala lumpur" :> 3838) @@
         ("london" :> 6711) @@ ("paris" :> 6587) @@ ("amsterdam" :> 6357) @@
         ("berlin" :> 5781) @@ ("rome" :> 5916) @@ ("barcelona" :> 6770) @@
         ("madrid" :> 7274) @@ ("vienna" :> 5565) @@ ("prague" :> 5706) @@
         ("zurich" :> 6154) @@ ("istanbul" :> 4551) @@ ("cairo" :> 4429) @@
         ("nairobi" :> 5435) @@ ("dubai" :> 2205) @@ ("new york" :> 11755) @@
         ("sydney" :> 10428) @@ ("san francisco" :> 12355) @@
         ("los angeles" :> 12860))) @@
    ("mumbai" :>
        (("bangalore" :> 845) @@ ("chennai" :> 1033) @@ ("kolkata" :> 1655) @@
         ("hyderabad" :> 621) @@ ("jaipur" :> 921) @@ ("goa" :> 440) @@
         ("varanasi" :> 1249) @@ ("kochi" :> 1080) @@ ("tokyo" :> 6720) @@
         ("osaka" :> 6348) @@ ("kyoto" :> 6371) @@ ("seoul" :> 5595) @@
         ("hong kong" :> 4297) @@ ("singapore" :> 3904) @@
         ("bangkok" :> 3002) @@ ("bali" :> 5540) @@ ("kuala lumpur" :> 3598) @@
         ("london" :> 7192) @@ ("paris" :> 7009) @@ ("amsterdam" :> 6852) @@
         ("berlin" :> 6286) @@ ("rome" :> 6175) @@ ("barcelona" :> 7031) @@
         ("madrid" :> 7532) @@ ("vienna" :> 5977) @@ ("prague" :> 6158) @@
         ("zurich" :> 6541) @@ ("istanbul" :> 4810) @@ ("cairo" :> 4358) @@
         ("nairobi" :> 4542) @@ ("dubai" :> 1935) @@ ("new york" :> 12538) @@
         ("sydney" :> 10157) @@ ("san francisco" :> 13494) @@
         ("los angeles" :> 13991))) @@
    ("bangalore" :>
        (("chennai" :> 290) @@ ("kolkata" :> 1561) @@ ("hyderabad" :> 500) @@
         ("jaipur" :> 1562) @@ ("goa" :> 455) @@ ("varanasi" :> 1484) @@
         ("kochi" :> 368) @@ ("tokyo" :> 6658) @@ ("osaka" :> 6271) @@
         ("kyoto" :> 6300) @@ ("seoul" :> 5585) @@ ("hong kong" :> 4001) @@
         ("singapore" :> 3164) @@ ("bangkok" :> 2479) @@ ("bali" :> 4772) @@
         ("kuala lumpur" :> 2865) @@ ("london" :> 8035) @@ ("paris" :> 7849) @@
         ("amsterdam" :> 7697) @@ ("berlin" :> 7131) @@ ("rome" :> 6996) @@
         ("barcelona" :> 7849) @@ ("madrid" :> 8346) @@ ("vienna" :> 6818) @@
         ("prague" :> 7001) @@ ("zurich" :> 7378) @@ ("istanbul" :> 5637) @@
         ("cairo" :> 5116) @@ ("nairobi" :> 4768) @@ ("dubai" :> 2705) @@
         ("new york" :> 13368) @@ ("sydney" :> 9349) @@
         ("san francisco" :> 13998) @@ ("los angeles" :> 14524))) @@
    ("chennai" :>
        (("kolkata" :> 1358) @@ ("hyderabad" :> 515) @@ ("jaipur" :> 1607) @@
         ("goa" :> 707) @@ ("varanasi" :> 1390) @@ ("kochi" :> 559) @@
         ("tokyo" :> 6411) @@ ("osaka" :> 6022) @@ ("kyoto" :> 6052) @@
         ("seoul" :> 5352) @@ ("hong kong" :> 3725) @@ ("singapore" :> 2902) @@
         ("bangkok" :> 2189) @@ ("bali" :> 4524) @@ ("kuala lumpur" :> 2601) @@
         ("london" :> 8211) @@ ("paris" :> 8036) @@ ("amsterdam" :> 7868) @@
         ("berlin" :> 7299) @@ ("rome" :> 7208) @@ ("barcelona" :> 8064) @@
         ("madrid" :> 8564) @@ ("vienna" :> 7003) @@ ("prague" :> 7179) @@
         ("zurich" :> 7570) @@ ("istanbul" :> 5842) @@ ("cairo" :> 5363) @@
         ("nairobi" :> 5051) @@ ("dubai" :> 2944) @@ ("new york" :> 13473) @@
         ("sydney" :> 9126) @@ ("san francisco" :> 13884) @@
         ("los angeles" :> 14420))) @@
    ("kolkata" :>
        (("hyderabad" :> 1182) @@ ("jaipur" :> 1358) @@ ("goa" :> 1701) @@
         ("varanasi" :> 627) @@ ("kochi" :> 1906) @@ ("tokyo" :> 5130) @@
         ("osaka" :> 4748) @@ ("kyoto" :> 4774) @@ ("seoul" :> 4036) @@
         ("hong kong" :> 2649) @@ ("singapore" :> 2891) @@
         ("bangkok" :> 1613) @@ ("bali" :> 4504) @@ ("kuala lumpur" :> 2595) @@
         ("london" :> 7962) @@ ("paris" :> 7856) @@ ("amsterdam" :> 7605) @@
         ("berlin" :> 7031) @@ ("rome" :> 7217) @@ ("barcelona" :> 8068) @@
         ("madrid" :> 8571) @@ ("vienna" :> 6844) @@ ("prague" :> 6973) @@
         ("zurich" :> 7435) @@ ("istanbul" :> 5854) @@ ("cairo" :> 5698) @@
         ("nairobi" :> 6178) @@ ("dubai" :> 3369) @@ ("new york" :> 12746) @@
         ("sydney" :> 9138) @@ ("san francisco" :> 12573) @@
         ("los angeles" :> 13118))) @@
    ("hyderabad" :>
        (("jaipur" :> 1095) @@ ("goa" :> 520) @@ ("varanasi" :> 997) @@
         ("kochi" :> 863) @@ ("tokyo" :> 6311) @@ ("osaka" :> 5930) @@
         ("kyoto" :> 5956) @@ ("seoul" :> 5213) @@ ("hong kong" :> 3763) @@
         ("singapore" :> 3293) @@ ("bangkok" :> 2391) @@ ("bali" :> 4935) @@
         ("kuala lumpur" :> 2986) @@ ("london" :> 7722) @@ ("paris" :> 7555) @@
         ("amsterdam" :> 7377) @@ ("berlin" :> 6805) @@ ("rome" :> 6756) @@
         ("barcelona" :> 7614) @@ ("madrid" :> 8117) @@ ("vienna" :> 6522) @@
         ("prague" :> 6693) @@ ("zurich" :> 7095) @@ ("istanbul" :> 5384) @@
         ("cairo" :> 4975) @@ ("nairobi" :> 5014) @@ ("dubai" :> 2553) @@
         ("new york" :> 12958) @@ ("sydney" :> 9569) @@
         ("san francisco" :> 13504) @@ ("los angeles" :> 14027))) @@
    ("jaipur" :>
        (("goa" :> 1303) @@ ("varanasi" :> 739) @@ ("kochi" :> 1889) @@
         ("tokyo" :> 6042) @@ ("osaka" :> 5687) @@ ("kyoto" :> 5706) @@
         ("seoul" :> 4896) @@ ("hong kong" :> 3899) @@ ("singapore" :> 4126) @@
         ("bangkok" :> 2954) @@ ("bali" :> 5771) @@ ("kuala lumpur" :> 3818) @@
         ("london" :> 6750) @@ ("paris" :> 6612) @@ ("amsterdam" :> 6398) @@
         ("berlin" :> 5822) @@ ("rome" :> 5903) @@ ("barcelona" :> 6760) @@
         ("madrid" :> 7265) @@ ("vienna" :> 5584) @@ ("prague" :> 5735) @@
         ("zurich" :> 6170) @@ ("istanbul" :> 4531) @@ ("cairo" :> 4341) @@
         ("nairobi" :> 5218) @@ ("dubai" :> 2056) @@ ("new york" :> 11875) @@
         ("sydney" :> 10428) @@ ("san francisco" :> 12576) @@
         ("los angeles" :> 13077))) @@
    ("goa" :>
        (("varanasi" :> 1445) @@ ("kochi" :> 641) @@ ("tokyo" :> 6829) @@
         ("osaka" :> 6448) @@ ("kyoto" :> 6474) @@ ("seoul" :> 5726) @@
         ("hong kong" :> 4274) @@ ("singapore" :> 3608) @@
         ("bangkok" :> 2843) @@ ("bali" :> 5223) @@ ("kuala lumpur" :> 3307) @@
         ("london" :> 7597) @@ ("paris" :> 7405) @@ ("amsterdam" :> 7261) @@
         ("berlin" :> 6698) @@ ("rome" :> 6543) @@ ("barcelona" :> 7395) @@
         ("madrid" :> 7893) @@ ("vienna" :> 6375) @@ ("prague" :> 6562) @@
         ("zurich" :> 6932) @@ ("istanbul" :> 5187) @@ ("cairo" :> 4663) @@
         ("nairobi" :> 4496) @@ ("dubai" :> 2250) @@ ("new york" :> 12973) @@
         ("sydney" :> 9804) @@ ("san francisco" :> 13866) @@
         ("los angeles" :> 14373))) @@
    ("varanasi" :>
        (("kochi" :> 1852) @@ ("tokyo" :> 5476) @@ ("osaka" :> 5107) @@
         ("kyoto" :> 5129) @@ ("seoul" :> 4347) @@ ("hong kong" :> 3184) @@
         ("singapore" :> 3478) @@ ("bangkok" :> 2238) @@ ("bali" :> 5108) @@
         ("kuala lumpur" :> 3176) @@ ("london" :> 7370) @@ ("paris" :> 7253) @@
         ("amsterdam" :> 7014) @@ ("berlin" :> 6438) @@ ("rome" :> 6595) @@
         ("barcelona" :> 7448) @@ ("madrid" :> 7952) @@ ("vienna" :> 6235) @@
         ("prague" :> 6372) @@ ("zurich" :> 6826) @@ ("istanbul" :> 5230) @@
         ("cairo" :> 5079) @@ ("nairobi" :> 5776) @@ ("dubai" :> 2781) @@
         ("new york" :> 12297) @@ ("sydney" :> 9753) @@
         ("san francisco" :> 12515) @@ ("los angeles" :> 13044))) @@
    ("kochi" :>
        (("tokyo" :> 6969) @@ ("osaka" :> 6580) @@ ("kyoto" :> 6610) @@
         ("seoul" :> 5911) @@ ("hong kong" :> 4262) @@ ("singapore" :> 3192) @@
         ("bangkok" :> 2670) @@ ("bali" :> 4754) @@ ("kuala lumpur" :> 2906) @@
         ("london" :> 8205) @@ ("paris" :> 8003) @@ ("amsterdam" :> 7873) @@
         ("berlin" :> 7314) @@ ("rome" :> 7111) @@ ("barcelona" :> 7956) @@
         ("madrid" :> 8448) @@ ("vienna" :> 6978) @@ ("prague" :> 7171) @@
         ("zurich" :> 7526) @@ ("istanbul" :> 5768) @@ ("cairo" :> 5165) @@
         ("nairobi" :> 4541) @@ ("dubai" :> 2792) @@ ("new york" :> 13611) @@
         ("sydney" :> 9264) @@ ("san francisco" :> 14365) @@
         ("los angeles" :> 14890))) @@
    ("tokyo" :>
        (("osaka" :> 392) @@ ("kyoto" :> 360) @@ ("seoul" :> 1149) @@
         ("hong kong" :> 2876) @@ ("singapore" :> 5311) @@
         ("bangkok" :> 4599) @@ ("bali" :> 5529) @@ ("kuala lumpur" :> 5318) @@
         ("london" :> 9559) @@ ("paris" :> 9712) @@ ("amsterdam" :> 9288) @@
         ("berlin" :> 8916) @@ ("rome" :> 9852) @@ ("barcelona" :> 10413) @@
         ("madrid" :> 10762) @@ ("vienna" :> 9127) @@ ("prague" :> 9070) @@
         ("zurich" :> 9577) @@ ("istanbul" :> 8943) @@ ("cairo" :> 9562) @@
         ("nairobi" :> 11248) @@ ("dubai" :> 7930) @@ ("new york" :> 10852) @@
         ("sydney" :> 7826) @@ ("san francisco" :> 8275) @@
         ("los angeles" :> 8819))) @@
    ("osaka" :>
        (("kyoto" :> 43) @@ ("seoul" :> 829) @@ ("hong kong" :> 2489) @@
         ("singapore" :> 4951) @@ ("bangkok" :> 4210) @@ ("bali" :> 5245) @@
         ("kuala lumpur" :> 4948) @@ ("london" :> 9499) @@ ("paris" :> 9634) @@
         ("amsterdam" :> 9215) @@ ("berlin" :> 8817) @@ ("rome" :> 9709) @@
         ("barcelona" :> 10307) @@ ("madrid" :> 10677) @@ ("vienna" :> 8999) @@
         ("prague" :> 8957) @@ ("zurich" :> 9471) @@ ("istanbul" :> 8744) @@
         ("cairo" :> 9308) @@ ("nairobi" :> 10882) @@ ("dubai" :> 7602) @@
         ("new york" :> 11103) @@ ("sydney" :> 7797) @@
         ("san francisco" :> 8642) @@ ("los angeles" :> 9190))) @@
    ("kyoto" :>
        (("seoul" :> 837) @@ ("hong kong" :> 2527) @@ ("singapore" :> 4993) @@
         ("bangkok" :> 4246) @@ ("bali" :> 5287) @@ ("kuala lumpur" :> 4989) @@
         ("london" :> 9478) @@ ("paris" :> 9614) @@ ("amsterdam" :> 9195) @@
         ("berlin" :> 8799) @@ ("rome" :> 9697) @@ ("barcelona" :> 10291) @@
         ("madrid" :> 10658) @@ ("vienna" :> 8985) @@ ("prague" :> 8941) @@
         ("zurich" :> 9455) @@ ("istanbul" :> 8738) @@ ("cairo" :> 9309) @@
         ("nairobi" :> 10904) @@ ("dubai" :> 7616) @@ ("new york" :> 11061) @@
         ("sydney" :> 7826) @@ ("san francisco" :> 8601) @@
         ("los angeles" :> 9149))) @@
    ("seoul" :>
        (("hong kong" :> 2092) @@ ("singapore" :> 4672) @@
         ("bangkok" :> 3722) @@ ("bali" :> 5252) @@ ("kuala lumpur" :> 4614) @@
         ("london" :> 8857) @@ ("paris" :> 8966) @@ ("amsterdam" :> 8556) @@
         ("berlin" :> 8127) @@ ("rome" :> 8966) @@ ("barcelona" :> 9602) @@
         ("madrid" :> 9995) @@ ("vienna" :> 8275) @@ ("prague" :> 8249) @@
         ("zurich" :> 8770) @@ ("istanbul" :> 7954) @@ ("cairo" :> 8486) @@
         ("nairobi" :> 10109) @@ ("dubai" :> 6783) @@ ("new york" :> 11053) @@
         ("sydney" :> 8329) @@ ("san francisco" :> 9029) @@
         ("los angeles" :> 9586))) @@
    ("hong kong" :>
        (("singapore" :> 2586) @@ ("bangkok" :> 1729) @@ ("bali" :> 3411) @@
         ("kuala lumpur" :> 2522) @@ ("london" :> 9623) @@ ("paris" :> 9626) @@
         ("amsterdam" :> 9277) @@ ("berlin" :> 8749) @@ ("rome" :> 9278) @@
         ("barcelona" :> 10064) @@ ("madrid" :> 10537) @@ ("vienna" :> 8728) @@
         ("prague" :> 8784) @@ ("zurich" :> 9301) @@ ("istanbul" :> 8015) @@
         ("cairo" :> 8142) @@ ("nairobi" :> 8764) @@ ("dubai" :> 5955) @@
         ("new york" :> 12955) @@ ("sydney" :> 7376) @@
         ("san francisco" :> 11096) @@ ("los angeles" :> 11649))) @@
    ("singapore" :>
        (("bangkok" :> 1427) @@ ("bali" :> 1650) @@ ("kuala lumpur" :> 309) @@
         ("london" :> 10848) @@ ("paris" :> 10729) @@ ("amsterdam" :> 10492) @@
         ("berlin" :> 9916) @@ ("rome" :> 10017) @@ ("barcelona" :> 10876) @@
         ("madrid" :> 11381) @@ ("vienna" :> 9706) @@ ("prague" :> 9848) @@
         ("zurich" :> 10294) @@ ("istanbul" :> 8642) @@ ("cairo" :> 8260) @@
         ("nairobi" :> 7455) @@ ("dubai" :> 5837) @@ ("new york" :> 15332) @@
         ("sydney" :> 6306) @@ ("san francisco" :> 13582) @@
         ("los angeles" :> 14121))) @@
    ("bangkok" :>
        (("bali" :> 2938) @@ ("kuala lumpur" :> 1188) @@ ("london" :> 9532) @@
         ("paris" :> 9443) @@ ("amsterdam" :> 9174) @@ ("berlin" :> 8603) @@
         ("rome" :> 8829) @@ ("barcelona" :> 9679) @@ ("madrid" :> 10182) @@
         ("vienna" :> 8440) @@ ("prague" :> 8561) @@ ("zurich" :> 9032) @@
         ("istanbul" :> 7467) @@ ("cairo" :> 7269) @@ ("nairobi" :> 7210) @@
         ("dubai" :> 4885) @@ ("new york" :> 13932) @@ ("sydney" :> 7536) @@
         ("san francisco" :> 12745) @@ ("los angeles" :> 13303))) @@
    ("bali" :>
        (("kuala lumpur" :> 1959) @@ ("london" :> 12463) @@
         ("paris" :> 12360) @@ ("amsterdam" :> 12105) @@ ("berlin" :> 11532) @@
         ("rome" :> 11667) @@ ("barcelona" :> 12526) @@ ("madrid" :> 13031) @@
         ("vienna" :> 11343) @@ ("prague" :> 11477) @@ ("zurich" :> 11933) @@
         ("istanbul" :> 10292) @@ ("cairo" :> 9886) @@ ("nairobi" :> 8696) @@
         ("dubai" :> 7467) @@ ("new york" :> 16305) @@ ("sydney" :> 4657) @@
         ("san francisco" :> 13409) @@ ("los angeles" :> 13877))) @@
    ("kuala lumpur" :>
        (("london" :> 10546) @@ ("paris" :> 10424) @@ ("amsterdam" :> 10190) @@
         ("berlin" :> 9614) @@ ("rome" :> 9708) @@ ("barcelona" :> 10567) @@
         ("madrid" :> 11072) @@ ("vienna" :> 9400) @@ ("prague" :> 9544) @@
         ("zurich" :> 9987) @@ ("istanbul" :> 8333) @@ ("cairo" :> 7955) @@
         ("nairobi" :> 7227) @@ ("dubai" :> 5532) @@ ("new york" :> 15119) @@
         ("sydney" :> 6615) @@ ("san francisco" :> 13590) @@
         ("los angeles" :> 14137))) @@
    ("london" :>
        (("paris" :> 344) @@ ("amsterdam" :> 358) @@ ("berlin" :> 932) @@
         ("rome" :> 1434) @@ ("barcelona" :> 1139) @@ ("madrid" :> 1263) @@
         ("vienna" :> 1235) @@ ("prague" :> 1034) @@ ("zurich" :> 776) @@
         ("istanbul" :> 2501) @@ ("cairo" :> 3511) @@ ("nairobi" :> 6821) @@
         ("dubai" :> 5473) @@ ("new york" :> 5570) @@ ("sydney" :> 16994) @@
         ("san francisco" :> 8616) @@ ("los angeles" :> 8756))) @@
    ("paris" :>
        (("amsterdam" :> 430) @@ ("berlin" :> 877) @@ ("rome" :> 1105) @@
         ("barcelona" :> 831) @@ ("madrid" :> 1053) @@ ("vienna" :> 1033) @@
         ("prague" :> 883) @@ ("zurich" :> 488) @@ ("istanbul" :> 2256) @@
         ("cairo" :> 3210) @@ ("nairobi" :> 6484) @@ ("dubai" :> 5247) @@
         ("new york" :> 5837) @@ ("sydney" :> 16960) @@
         ("san francisco" :> 8953) @@ ("los angeles" :> 9086))) @@
    ("amsterdam" :>
        (("berlin" :> 576) @@ ("rome" :> 1296) @@ ("barcelona" :> 1238) @@
         ("madrid" :> 1481) @@ ("vienna" :> 935) @@ ("prague" :> 711) @@
         ("zurich" :> 613) @@ ("istanbul" :> 2212) @@ ("cairo" :> 3282) @@
         ("nairobi" :> 6670) @@ ("dubai" :> 5159) @@ ("new york" :> 5863) @@
         ("sydney" :> 16643) @@ ("san francisco" :> 8773) @@
         ("los angeles" :> 8940))) @@
    ("berlin" :>
        (("rome" :> 1183) @@ ("barcelona" :> 1499) @@ ("madrid" :> 1869) @@
         ("vienna" :> 524) @@ ("prague" :> 281) @@ ("zurich" :> 669) @@
         ("istanbul" :> 1738) @@ ("cairo" :> 2892) @@ ("nairobi" :> 6371) @@
         ("dubai" :> 4624) @@ ("new york" :> 6385) @@ ("sydney" :> 16094) @@
         ("san francisco" :> 9105) @@ ("los angeles" :> 9310))) @@
    ("rome" :>
        (("barcelona" :> 860) @@ ("madrid" :> 1364) @@ ("vienna" :> 764) @@
         ("prague" :> 921) @@ ("zurich" :> 684) @@ ("istanbul" :> 1375) @@
         ("cairo" :> 2132) @@ ("nairobi" :> 5390) @@ ("dubai" :> 4321) @@
         ("new york" :> 6890) @@ ("sydney" :> 16321) @@
         ("san francisco" :> 10047) @@ ("los angeles" :> 10189))) @@
    ("barcelona" :>
        (("madrid" :> 505) @@ ("vienna" :> 1350) @@ ("prague" :> 1353) @@
         ("zurich" :> 836) @@ ("istanbul" :> 2235) @@ ("cairo" :> 2893) @@
         ("nairobi" :> 5891) @@ ("dubai" :> 5164) @@ ("new york" :> 6166) @@
         ("sydney" :> 17181) @@ ("san francisco" :> 9572) @@
         ("los angeles" :> 9654))) @@
    ("madrid" :>
        (("vienna" :> 1810) @@ ("prague" :> 1773) @@ ("zurich" :> 1247) @@
         ("istanbul" :> 2739) @@ ("cairo" :> 3351) @@ ("nairobi" :> 6190) @@
         ("dubai" :> 5656) @@ ("new york" :> 5768) @@ ("sydney" :> 17685) @@
         ("san francisco" :> 9318) @@ ("los angeles" :> 9363))) @@
    ("vienna" :>
        (("prague" :> 251) @@ ("zurich" :> 592) @@ ("istanbul" :> 1277) @@
         ("cairo" :> 2383) @@ ("nairobi" :> 5848) @@ ("dubai" :> 4238) @@
         ("new york" :> 6796) @@ ("sydney" :> 15976) @@
         ("san francisco" :> 9622) @@ ("los angeles" :> 9819))) @@
    ("prague" :>
        (("zurich" :> 526) @@ ("istanbul" :> 1511) @@ ("cairo" :> 2633) @@
         ("nairobi" :> 6097) @@ ("dubai" :> 4449) @@ ("new york" :> 6572) @@
         ("sydney" :> 16085) @@ ("san francisco" :> 9372) @@
         ("los angeles" :> 9568))) @@
    ("zurich" :>
        (("istanbul" :> 1770) @@ ("cairo" :> 2736) @@ ("nairobi" :> 6069) @@
         ("dubai" :> 4763) @@ ("new york" :> 6324) @@ ("sydney" :> 16568) @@
         ("san francisco" :> 9370) @@ ("los angeles" :> 9523))) @@
    ("istanbul" :>
        (("cairo" :> 1236) @@ ("nairobi" :> 4770) @@ ("dubai" :> 2994) @@
         ("new york" :> 8070) @@ ("sydney" :> 14946) @@
         ("san francisco" :> 10785) @@ ("los angeles" :> 11020))) @@
    ("cairo" :>
        (("nairobi" :> 3534) @@ ("dubai" :> 2423) @@ ("new york" :> 9022) @@
         ("sydney" :> 14417) @@ ("san francisco" :> 11992) @@
         ("los angeles" :> 12201))) @@
    ("nairobi" :>
        (("dubai" :> 3553) @@ ("new york" :> 11843) @@ ("sydney" :> 12151) @@
         ("san francisco" :> 15437) @@ ("los angeles" :> 15544))) @@
    ("dubai" :>
        (("new york" :> 11008) @@ ("sydney" :> 12050) @@
         ("san francisco" :> 13008) @@ ("los angeles" :> 13391))) @@
    ("new york" :>
        (("sydney" :> 15989) @@ ("san francisco" :> 4129) @@
         ("los angeles" :> 3936))) @@
    ("sydney" :>
        (("san francisco" :> 11948) @@ ("los angeles" :> 12074))) @@
    ("san francisco" :>
        (("los angeles" :> 559)))

_haversine(o, d) ==
    IF o \in DOMAIN HaversineKm /\ d \in DOMAIN HaversineKm[o]
    THEN HaversineKm[o][d]
    ELSE HaversineKm[d][o]

\* variant: the table is read in the direction asked for only
_get_distance_NoReverse(origin, dest) ==
    LET o == Strip(Lower(origin))
        d == Strip(Lower(dest))
    IN  IF o = d THEN 0
        ELSE IF o \in DOMAIN _DISTANCE_KM /\ d \in DOMAIN _DISTANCE_KM[o]
             THEN _DISTANCE_KM[o][d]
        ELSE IF o \in DOMAIN _COORDS /\ d \in DOMAIN _COORDS
             THEN _haversine(o, d)
        ELSE DefaultDistanceKm

_get_distance(origin, dest) ==
    LET o == Strip(Lower(origin))
        d == Strip(Lower(dest))
    IN  IF o = d THEN 0
        ELSE IF o \in DOMAIN _DISTANCE_KM /\ d \in DOMAIN _DISTANCE_KM[o]
             THEN _DISTANCE_KM[o][d]
        ELSE IF d \in DOMAIN _DISTANCE_KM /\ o \in DOMAIN _DISTANCE_KM[d]
             THEN _DISTANCE_KM[d][o]
        ELSE IF o \in DOMAIN _COORDS /\ d \in DOMAIN _COORDS
             THEN _haversine(o, d)
        ELSE DefaultDistanceKm

\* kg CO2 per passenger-km, in thousandths
_emission_factor(distance_km) ==
    IF distance_km < ShortHaulKm THEN 255
    ELSE IF distance_km < MediumHaulKm THEN 195
    ELSE 150

\* totals are in tenths of a kg
_carbon_rating(total_kg) ==
    IF total_kg < 2000 THEN "low"
    ELSE IF total_kg < 6000 THEN "moderate"
    ELSE IF total_kg < 12000 THEN "high"
    ELSE "very high"

_generate_tips(legs, rating) ==
    (IF \E i \in DOMAIN legs : legs[i].mode = "flight" /\ legs[i].distance_km < 800
     THEN <<"trains for short-haul legs">> ELSE <<>>)
    \o (IF rating \in {"high", "very high"}
        THEN <<"direct flights", "pack light">> ELSE <<>>)
    \o <<"eco-certified hotels", "public transport">>
    \o (IF Len(legs) > 4 THEN <<"combine nearby destinations">> ELSE <<>>)

CarbonLeg(l, m, dist, co2) ==
    [ leg |-> l, mode |-> m, distance_km |-> dist, co2_kg |-> co2 ]

\* the place where the emission of the i-th flight leg is rounded
CarbonSite(i) == "co2_leg" \o ToString(i)

\* the i-th flight leg of the n + 1: origin to the first destination, one
\* destination to the next, the last one back to the origin
CarbonHop(intent, i) ==
    LET origin == IF intent.origin_city = NONE THEN DefaultOrigin
                  ELSE intent.origin_city
        destinations == intent.destinations
        n == Len(destinations)
    IN  IF i = 1 THEN <<origin, destinations[1]>>
        ELSE IF i <= n THEN <<destinations[i - 1], destinations[i]>>
        ELSE <<destinations[n], origin>>

\* dist * factor * travelers of the i-th flight leg, in tenths of a kg, before
\* it is rounded
CarbonQuot(intent, i) ==
    LET dist == _get_distance(CarbonHop(intent, i)[1], CarbonHop(intent, i)[2])
    IN  Div(dist * _emission_factor(dist) * intent.traveler_count, 100)

\* the flight legs whose emission stands exactly between two tenths
CarbonAtTie(state) ==
    IF state.intent.destinations = <<>> THEN {}
    ELSE { CarbonSite(i) : i \in { j \in 1..(Len(state.intent.destinations) + 1) :
                                     AtTie(CarbonQuot(state.intent, j)) } }

CarbonRun(state, ties) ==
    Bind(state.intent, LAMBDA intent :
    Bind(intent.destinations, LAMBDA destinations :
    Bind(intent.traveler_count, LAMBDA travelers :
    Bind(Len(destinations), LAMBDA n :
    LET flightLeg(i) == 
            CarbonLeg(CarbonHop(intent, i), "flight",
                      _get_distance(CarbonHop(intent, i)[1], CarbonHop(intent, i)[2]),
                      Round(CarbonQuot(intent, i), ties[CarbonSite(i)]))
    IN
    Bind(IF n = 0 THEN <<>> ELSE [ i \in 1..(n + 1) |-> flightLeg(i) ], LAMBDA flights :
    Bind(intent.duration_days, LAMBDA local_days :
    Bind(local_days * 55 * travelers, LAMBDA local_co2 :
    Bind(IF local_co2 > 0
         THEN Append(flights,
                     CarbonLeg(<<"Local transport">>, "bus",
                               local_days * 40, local_co2))
         ELSE flights, LAMBDA legs :
    Bind(SumSeq([ i \in DOMAIN legs |-> legs[i].co2_kg ]), LAMBDA total_co2 :
    Bind(_carbon_rating(total_co2), LAMBDA rating :
    Bind([state EXCEPT !.carbon_footprint =
            [ total_co2_kg |-> total_co2,
              rating |-> rating,
              \* 1.2 times a number of tenths is never half-way
              offset_cost_inr |-> RoundDiv(total_co2 * 12, 100, FALSE),
              legs |-> legs,
              tips |-> _generate_tips(legs, rating) ]], LAMBDA s1 :
        log(s1, "CarbonFootprintAgent") )))))))))))

\* -------------------------------------------- Agent 5: RiskAnalyzerAgent
\* get_weather_risk: avg_temp_c in degrees, chances in hundredths; a name
\* without a profile gets the one its hash gives
get_weather_risk(destination) ==
    CASE Lower(destination) = "tokyo" ->
            [ avg_temp_c |-> 22, rain_chance |-> 30, storm_probability |-> 8,
              best_months |-> << "March", "April", "October", "November" >> ]
      [] Lower(destination) = "kyoto" ->
            [ avg_temp_c |-> 23, rain_chance |-> 28, storm_probability |-> 6,
              best_months |-> << "March", "April", "October", "November" >> ]
      [] Lower(destination) = "delhi" ->
            [ avg_temp_c |-> 28, rain_chance |-> 20, storm_probability |-> 5,
              best_months |-> << "October", "November", "February", "March" >> ]
      [] OTHER ->
            [ avg_temp_c |-> 22 + _city_hash_mod(Lower(destination), 12),
              rain_chance |-> 10 + _city_hash_mod(Lower(destination), 40),
              storm_probability |-> 2 + _city_hash_mod(Lower(destination), 15),
              best_months |-> << "March", "April", "October", "November" >> ]

\* the recommendation of a weather insight: which of the four sentences, and
\* what it names (months = best[:2] or best[:3], rain = "heavy rain" is said)
WeatherRecommendation(w, travel_month) ==
    LET best == w.best_months
    IN  IF travel_month # NONE /\ best # <<>>
        THEN IF travel_month \in Range(best)
             THEN [ kind |-> "great choice", months |-> <<>>,
                    travel_month |-> travel_month, rain |-> FALSE ]
             ELSE [ kind |-> "consider", months |-> SubSeq(best, 1, Min(2, Len(best))),
                    travel_month |-> travel_month, rain |-> w.rain_chance > 35 ]
        ELSE IF best # <<>>
        THEN [ kind |-> "best months", months |-> SubSeq(best, 1, Min(3, Len(best))),
               travel_month |-> NONE, rain |-> FALSE ]
        ELSE [ kind |-> "limited", months |-> <<>>,
               travel_month |-> NONE, rain |-> FALSE ]

\* country or _CITY_TO_COUNTRY.get(key, ''), then _VISA_DATA or the fallback
get_visa_info(destination, country) ==
    LET cntry == IF country # NONE THEN country
                 ELSE get_country_for_city(destination)
    IN  CASE cntry = "japan" -> [ required |-> TRUE, details |-> "tourist visa" ]
          [] cntry = "india" -> [ required |-> FALSE, details |-> "no visa" ]
          [] OTHER -> [ required |-> TRUE, details |-> "check with the embassy" ]

\* variant: the temperature is looked at before the rain
WeatherNote_TemperatureFirst(w) ==
    IF w.avg_temp_c > 38 THEN "Extreme heat"
    ELSE IF w.avg_temp_c > 33 THEN "Hot"
    ELSE IF w.avg_temp_c < 5 THEN "Very cold"
    ELSE IF w.avg_temp_c < 15 THEN "Cool"
    ELSE IF w.rain_chance > 50 THEN "Very likely rain"
    ELSE IF w.rain_chance > 35 THEN "Possible rain"
    ELSE "Pleasant"

WeatherNote(w) ==
    IF w.rain_chance > 50 THEN "Very likely rain"
    ELSE IF w.rain_chance > 35 THEN "Possible rain"
    ELSE IF w.avg_temp_c > 38 THEN "Extreme heat"
    ELSE IF w.avg_temp_c > 33 THEN "Hot"
    ELSE IF w.avg_temp_c < 5 THEN "Very cold"
    ELSE IF w.avg_temp_c < 15 THEN "Cool"
    ELSE "Pleasant"

\* temperature extremity * 10, in thousandths of a point
TempExtreme(avg_temp) ==
    IF avg_temp > 28 THEN (avg_temp - 28) * 500
    ELSE IF avg_temp < 18 THEN (18 - avg_temp) * 500
    ELSE 0

\* the visa loop: acc = [seen, required, count, details]
RECURSIVE RiskVisa(_, _, _, _)
RiskVisa(acc, destinations, i, intent) ==
    IF i > Len(destinations) THEN acc
    ELSE LET dest == destinations[i]
             country == IF intent.country # NONE THEN intent.country
                        ELSE get_country_for_city(dest)
             info == get_visa_info(dest, country)
         IN  RiskVisa(
                 IF country # NONE /\ country \notin acc.seen
                 THEN [ seen |-> acc.seen \cup {country},
                        required |-> acc.required \/ info.required,
                        count |-> acc.count + (IF info.required THEN 1 ELSE 0),
                        details |-> Append(acc.details, <<country, info.details>>) ]
                 ELSE acc,
                 destinations, i + 1, intent)

\* budget_risk * 0.25, as a quotient in hundred-thousandths of a point (1.0
\* is 25000); total_cost in thousandths of a rupee, b = budget_max in rupees
\* (ratio = total_cost / b).  total_cost is a sum rounded to 2 decimals and
\* budget_max a whole number: where the ratio stands on 0.8, 1.0 or 1.3 the
\* float quotient is at most the float the code compares it with.
BudgetRisk(total_cost, b) ==
    LET \* ratio <= k / 1000, without forming k * b
        upto(k) == \/ total_cost \div k < b
                   \/ total_cost \div k = b /\ total_cost % k = 0
    IN  IF b <= 0 THEN Div(75000, 1)
        ELSE IF upto(800) THEN Div(25000, 1)
        ELSE IF upto(1000)
             \* 1.0 + (ratio - 0.8) * 20
             THEN [ MulDiv(total_cost, 500, b) EXCEPT !.q = @ - 375000 ]
        ELSE IF upto(1300)
             \* 5.0 + (ratio - 1.0) * 16.7
             THEN [ MulDiv(total_cost, 835, 2 * b) EXCEPT !.q = @ - 292500 ]
        ELSE Div(250000, 1)

\* the composite in hundred-thousandths of a point, before it is rounded to
\* one decimal: the four weighted risks of the lookups and the budget's
RiskQuot(max_storm, max_rain, max_temp, visa_count, total_cost, b) ==
    Bind(Min(max_storm * 500, 10000), LAMBDA weather_risk :
    Bind(Min(visa_count * 3300, 10000), LAMBDA visa_risk :
    Bind(Min(max_rain * 150, 10000), LAMBDA rain_risk :
    Bind(Min(max_temp, 10000), LAMBDA temp_risk :
    Bind(weather_risk * 30 + visa_risk * 20 + rain_risk * 15 + temp_risk * 10, LAMBDA fixed :
    Bind(BudgetRisk(total_cost, b), LAMBDA budget_risk :
    Bind(fixed + budget_risk.q, LAMBDA n :
        \* (n + r/d) / 10000 = q + (r10 + r/d) / 10000
        [ q |-> n \div 10000, r10 |-> n % 10000, exact |-> budget_risk.r = 0 ] )))))))

\* round(min(composite, 10.0), 1), in tenths
RiskComposite(max_storm, max_rain, max_temp, visa_count, total_cost, b, tieUp) ==
    Bind(RiskQuot(max_storm, max_rain, max_temp, visa_count, total_cost, b), LAMBDA x :
    Bind(\/ x.r10 > 5000
         \/ x.r10 = 5000 /\ ~ x.exact
         \/ x.r10 = 5000 /\ x.exact /\ tieUp, LAMBDA up :
        Min(x.q + (IF up THEN 1 ELSE 0), 100) ))

\* the composite stands exactly between two tenths
RiskAtTie(max_storm, max_rain, max_temp, visa_count, total_cost, b) ==
    Bind(RiskQuot(max_storm, max_rain, max_temp, visa_count, total_cost, b), LAMBDA x :
        x.r10 = 5000 /\ x.exact )

\* the run of the agent; at_tie tells whether its one rounding stood at a tie
RiskAnalyze(state, ties) ==
    Bind(state.intent, LAMBDA intent :
    Bind(DestinationsOrUnknown(intent), LAMBDA destinations :
    Bind([ i \in DOMAIN destinations |-> get_weather_risk(destinations[i]) ], LAMBDA w :
    Bind(MaxSeq([ i \in DOMAIN w |-> w[i].storm_probability ]), LAMBDA max_storm :
    Bind(MaxSeq([ i \in DOMAIN w |-> w[i].rain_chance ]), LAMBDA max_rain :
    Bind(MaxSeq([ i \in DOMAIN w |-> TempExtreme(w[i].avg_temp_c) ]), LAMBDA max_temp :
    Bind([ i \in DOMAIN destinations |->
             [ city |-> destinations[i],
               avg_temp_c |-> w[i].avg_temp_c,
               rain_chance |-> w[i].rain_chance,
               best_months |-> w[i].best_months,
               recommendation |->
                   WeatherRecommendation(w[i], intent.travel_month) ] ], LAMBDA insights :
    \* dest_weather: the last insight of each lower-cased city
    LET noteFor(city) == 
            LET hits == { i \in DOMAIN insights :
                            Lower(insights[i].city) = Lower(city) }
            IN  IF hits = {} THEN NONE
                ELSE WeatherNote(insights[CHOOSE i \in hits :
                                             \A j \in hits : j <= i])
    IN
    Bind(state.day_by_day_itinerary, LAMBDA days :
    Bind(RiskVisa([ seen |-> {}, required |-> FALSE, count |-> 0,
                    details |-> <<>> ], destinations, 1, intent), LAMBDA visa :
    Bind(RiskComposite(max_storm, max_rain, max_temp, visa.count,
                       state.total_cost, budget_max(intent),
                       ties["risk_score"]), LAMBDA score :
    Bind([state EXCEPT
            !.weather_data = { destinations[i] : i \in DOMAIN destinations },
            !.weather_insights = insights,
            !.day_by_day_itinerary =
                [ i \in DOMAIN days |->
                    IF noteFor(days[i].city) = NONE THEN days[i]
                    ELSE [days[i] EXCEPT
                            !.weather_note = noteFor(days[i].city)] ],
            !.visa_information = [ required |-> visa.required,
                                   details |-> visa.details ],
            !.visa_data = [ required |-> visa.required,
                            details |-> visa.details ],
            !.risk_score = score], LAMBDA s1 :
        [ state |-> log(s1, "RiskAnalyzerAgent"),
          at_tie |-> IF RiskAtTie(max_storm, max_rain, max_temp, visa.count,
                                  state.total_cost, budget_max(intent))
                     THEN {"risk_score"} ELSE {} ] )))))))))))

RiskRun(state, ties) == RiskAnalyze(state, ties).state

\* ------------------------------------------------- ConfidenceAgent
\* all scores are in hundredths
ConfidenceIntent(intent) ==
    Min(55 + (IF intent.destinations # <<>> THEN 15 ELSE 0)
           + (IF intent.budget_total_inr # 0 \/ intent.budget_range_max # 0
              THEN 10 ELSE 0)
           + (IF intent.travel_month # NONE THEN 7 ELSE 0)
           + (IF intent.origin_city # NONE THEN 5 ELSE 0)
           + (IF intent.trip_type # <<>> THEN 4 ELSE 0)
           + (IF Cardinality(intent.interests) >= 2 THEN 4 ELSE 0),
        100)

ConfidenceRoute(state) ==
    LET itinerary == state.day_by_day_itinerary
    IN  Min(65 + (IF Len(itinerary) = state.intent.duration_days THEN 15 ELSE 0)
               + (IF state.route_strategy.kind # "" THEN 8 ELSE 0)
               + (IF state.transport_plan.route_order # <<>> THEN 7 ELSE 0)
               + (IF itinerary # <<>> THEN 5 ELSE 0),
            100)

ConfidenceFlight(flights) ==
    LET prices == SelectSeq(flights, LAMBDA x : x > 0)
        spreadOk == prices # <<>>
                    /\ (MaxSeq(prices) - MinSeq(prices)) * 100 > 15 * MaxSeq(prices)
        penalty == \E i \in DOMAIN prices : prices[i] <= 0
        raw == 60 + (IF flights # <<>>
                     THEN 15 + (IF Len(flights) >= 3 THEN 10 ELSE 0)
                             + (IF spreadOk THEN 10 ELSE 0)
                             - (IF penalty THEN 10 ELSE 0)
                     ELSE 0)
    IN  Min(Max(raw, 0), 100)

ConfidenceHotel(state) ==
    LET hotels == state.hotel_options
        recs == state.stay_recommendations
    IN  Min(60 + (IF hotels # <<>>
                  THEN 15 + (IF Len(hotels) >= 4 THEN 10 ELSE 0)
                          + (IF recs # <<>>
                             THEN 10 + (IF \A i \in DOMAIN recs :
                                              recs[i].budget_per_night_inr > 0
                                        THEN 5 ELSE 0)
                             ELSE 0)
                  ELSE 0),
            100)

\* the activity score in hundredths, before it is rounded
ConfidenceActivityQuot(state) ==
    Bind(state.day_by_day_itinerary, LAMBDA itinerary :
    Bind(Len(itinerary), LAMBDA total_days :
    Bind(Cardinality({ i \in DOMAIN itinerary :
                         itinerary[i].activities # <<>> }), LAMBDA with :
    Bind(Concat([ i \in DOMAIN itinerary |-> itinerary[i].activities ]), LAMBDA all_acts :
    Bind(Max(total_days, 1), LAMBDA n :
    \* the score times n, so that 0.10 * (with / n) stays exact
    Bind(IF total_days > 0 /\ with = total_days THEN 20 * n
         ELSE IF with > 0 THEN 10 * with ELSE 0, LAMBDA coverage :
    Bind(60 + (IF Len(state.experiences) > 3 THEN 10 ELSE 0)
            + (IF state.remote_work_spots # <<>> THEN 5 ELSE 0)
            + (IF 10 * Cardinality(Range(all_acts))
                    > 7 * Max(Len(all_acts), 1) THEN 5 ELSE 0), LAMBDA rest :
        Div(rest * n + coverage, n) )))))))

ConfidenceActivity(state, tieUp) ==
    Min(Round(ConfidenceActivityQuot(state), tieUp), 100)

\* 2^n, and 2^n modulo m
RECURSIVE Pow2(_)
Pow2(n) == IF n = 0 THEN 1 ELSE 2 * Pow2(n - 1)

RECURSIVE Pow2Mod(_, _)
Pow2Mod(n, m) == IF n = 0 THEN 1 % m ELSE (2 * Pow2Mod(n - 1, m)) % m

\* the binary exponent of t / 1000: the e with 2^e <= t / 1000 < 2^(e + 1)
BinaryExponent(t) ==
    IF t >= 1000
    THEN CHOOSE e \in 0..21 :
             t \div Pow2(e) >= 1000 /\ t \div Pow2(e + 1) < 1000
    ELSE 0 - (CHOOSE j \in 1..10 :
                  t * Pow2(j) >= 1000 /\ t * Pow2(j - 1) < 1000)

\* "ratio <= 1.15" for a total that is 1.15 times a whole budget_max, t in
\* thousandths.  The float written 1.15 lies 0.4 units of its last place
\* below 1.15, and the float total lies err / 1000 units of its last place
\* above t / 1000; total / budget_max is rounded to the float 1.15 when
\* 0.4 + 1.15 * err / (1000 * f) <= 0.5, f = t / 1000 / 2^e being the
\* significand of the total, and to the next float above when not.
RatioUpTo115(t) ==
    LET e == BinaryExponent(t)
        r == ((t % 1000) * Pow2Mod(52 - e, 1000)) % 1000
        err == IF r < 500 THEN 0 - r ELSE 1000 - r
    IN  IF err <= 0 THEN TRUE
        ELSE IF err >= 174 THEN FALSE
        ELSE IF e >= 1 THEN t \div (23 * err) >= Pow2(e - 1)
        ELSE 2 * t * Pow2(0 - e) >= 23 * err

\* budget_max is a whole number and total_estimated a sum rounded to 2
\* decimals: where the ratio stands on 0.6, 0.75 or 1.05 the float quotient
\* is within the band, and where it stands on 1.15 RatioUpTo115 tells
ConfidenceBudget(state) ==
    Bind(state.cost_breakdown, LAMBDA cb :
    Bind(budget_max(state.intent) * Milli, LAMBDA b :
    Bind(cb.total_estimated, LAMBDA t :
    \* ratio = total_estimated / budget_max, in per cent
    Bind(MulDiv(t, 100, b), LAMBDA pct :
    LET from(lo) == pct.q >= lo
    IN
    LET upto(hi) == pct.q < hi \/ (pct.q = hi /\ pct.r = 0)
    IN
    Bind(IF b > 0
         THEN IF from(75) /\ upto(105) THEN 15
              ELSE IF from(60) /\ upto(115)
                      /\ (pct.q = 115 => RatioUpTo115(t)) THEN 8
              ELSE 0
         ELSE 0, LAMBDA band :
        Min(60 + (IF t > 0 THEN 15 + band ELSE 0)
               + (IF state.optimization_score >= 80 THEN 10
                  ELSE IF state.optimization_score >= 60 THEN 5 ELSE 0),
            100) )))))

ConfidenceRisk(state) ==
    \* visa_data is a two-key dict, visa_information.details is never the
    \* empty string once the Risk stage has run, and risk_score is never None
    Min(65 + (IF state.weather_data # {} THEN 10 ELSE 0) + 10 + 8 + 7, 100)

\* variant: the intent score is weighted 0.30
ConfidenceOverall_IntentWeight30(sc, tieUp) ==
    RoundDiv(sc.intent_parsing * 30 + sc.route_planning * 15
               + sc.flight_data * 15 + sc.hotel_data * 15
               + sc.activity_data * 15 + sc.budget_optimization * 10
               + sc.risk_assessment * 10,
             100, tieUp)

\* the weighted sum in hundredths, before it is rounded
ConfidenceOverallQuot(sc) ==
    Div(sc.intent_parsing * 20 + sc.route_planning * 15
          + sc.flight_data * 15 + sc.hotel_data * 15
          + sc.activity_data * 15 + sc.budget_optimization * 10
          + sc.risk_assessment * 10,
        100)

ConfidenceOverall(sc, tieUp) == Round(ConfidenceOverallQuot(sc), tieUp)

\* the seven scores the overall one is weighted from
ConfidenceParts(state, ties) ==
    [ intent_parsing |-> ConfidenceIntent(state.intent),
      route_planning |-> ConfidenceRoute(state),
      flight_data |-> ConfidenceFlight(state.flight_options),
      hotel_data |-> ConfidenceHotel(state),
      activity_data |-> ConfidenceActivity(state, ties["activity_data"]),
      budget_optimization |-> ConfidenceBudget(state),
      risk_assessment |-> ConfidenceRisk(state) ]

\* the roundings of the run that stand at a tie
ConfidenceAtTie(state, ties) ==
    (IF AtTie(ConfidenceActivityQuot(state)) THEN {"activity_data"} ELSE {})
    \cup (IF AtTie(ConfidenceOverallQuot(ConfidenceParts(state, ties)))
          THEN {"overall"} ELSE {})

ConfidenceRun(state, ties) ==
    Bind(ConfidenceParts(state, ties), LAMBDA part :
    Bind([ overall |-> ConfidenceOverall(part, ties["overall"]) ] @@ part, LAMBDA scores :
        log([state EXCEPT !.confidence_scores = scores], "ConfidenceAgent") ))

\* ======================================================== the service
\* One request at a time is followed through TravelService.plan or
\* TravelService.plan_stream; the response cache outlives the request, the
\* vector store is the one of the request's TravelService.
VARIABLES
    prompt,     \* what the request's text contains (see IntentRun)
    mode,       \* "plan" or "stream"
    svc,        \* where the call is: "start", "running" (in the graph, or at
                \* its end), "storing" (plan, awaiting the cache write),
                \* "burst", "closing", "yielded" (plan_stream, see below),
                \* "done" (returned), "raised" or "closed"
    node,       \* the graph node about to run, "idle", "END" or "aborted"
    ran,        \* the nodes that have completed in this run, in order
    failed,     \* the node that raised, or NONE
    state,      \* the TravelGraphState of the run
    opt,        \* what the Budget Optimizer was given and did: the breakdown,
                \* stays and days it was given, its total before and between
                \* the passes, whether it fitted, its rounds
    events,     \* the events plan_stream has yielded
    response,   \* the TravelResponse the call holds, read from the cache or
                \* built at the end of the graph: <<r>>, or <<>>; plan
                \* returns it, plan_stream yields it in the result event
    cache,      \* the response cache: prompt |-> cached response
    store,      \* the keys held by the vector store of the request's
                \* TravelService
    peer,       \* a second plan call with the same text, under way at the
                \* same time: its position, its nodes run, its state, its
                \* vector store and its response
    call        \* a call of _get_distance made on its own: its arguments
                \* and what it returned; empty where no such call is made

vars == << prompt, mode, svc, node, ran, failed, state, opt, events,
           response, cache, store, peer, call >>

Modes == {"plan", "stream"}

\* _AGENT_LABELS / _AGENT_ORDER
_AGENT_ORDER == << "intent_extractor", "memory", "planner", "flight", "hotel",
                  "experience", "budget", "carbon", "risk", "confidence",
                  "validation" >>

\* TravelGraphService.build: the entry point and the edges
EntryPoint == "intent_extractor"

\* variant: the Confidence node is wired to END, the Validator is left out
Edge_NoValidation(n) ==
    CASE n = "intent_extractor" -> "memory"
      [] n = "memory" -> "planner"
      [] n = "planner" -> "flight"
      [] n = "flight" -> "hotel"
      [] n = "hotel" -> "experience"
      [] n = "experience" -> "budget"
      [] n = "budget" -> "carbon"
      [] n = "carbon" -> "risk"
      [] n = "risk" -> "confidence"
      [] n = "confidence" -> "END"
      [] n = "validation" -> "END"

\* variant: the Budget node is wired to Risk and Carbon is wired after Risk
Edge_CarbonAfterRisk(n) ==
    CASE n = "intent_extractor" -> "memory"
      [] n = "memory" -> "planner"
      [] n = "planner" -> "flight"
      [] n = "flight" -> "hotel"
      [] n = "hotel" -> "experience"
      [] n = "experience" -> "budget"
      [] n = "budget" -> "risk"
      [] n = "risk" -> "carbon"
      [] n = "carbon" -> "confidence"
      [] n = "confidence" -> "validation"
      [] n = "validation" -> "END"

Edge(n) ==
    CASE n = "intent_extractor" -> "memory"
      [] n = "memory" -> "planner"
      [] n = "planner" -> "flight"
      [] n = "flight" -> "hotel"
      [] n = "hotel" -> "experience"
      [] n = "experience" -> "budget"
      [] n = "budget" -> "carbon"
      [] n = "carbon" -> "risk"
      [] n = "risk" -> "confidence"
      [] n = "confidence" -> "validation"
      [] n = "validation" -> "END"

_build_initial_state(p) ==
    [ raw_prompt |-> p,
      intent |-> DefaultIntent,
      flight_options |-> <<>>,
      hotel_options |-> <<>>,
      experiences |-> <<>>,
      weather_data |-> {},
      visa_data |-> NONE,
      day_by_day_itinerary |-> <<>>,
      transport_plan |-> TransportPlan(<<>>, <<>>),
      stay_recommendations |-> <<>>,
      visa_information |-> [ required |-> FALSE, details |-> <<>> ],
      cost_breakdown |-> CostBreakdown(0, 0, 0, 0, 0),
      remote_work_spots |-> <<>>,
      summary |-> NONE,
      route_strategy |-> [ kind |-> "", route |-> <<>> ],
      carbon_footprint |-> NONE,
      confidence_scores |-> NONE,
      weather_insights |-> <<>>,
      total_cost |-> 0,
      risk_score |-> 0,
      optimization_score |-> 0,
      optimization_summary |-> NONE,
      logs |-> <<>>,
      memory_context |-> <<>>,
      validation_errors |-> NONE ]   \* key absent until ValidationAgent


_build_response(result) ==
    [ intent |-> result.intent,
      plan |-> [ summary |-> result.summary,
                 route_strategy |-> result.route_strategy,
                 day_by_day_itinerary |-> result.day_by_day_itinerary,
                 transport_plan |-> result.transport_plan,
                 stay_recommendations |-> result.stay_recommendations,
                 visa_information |-> result.visa_information,
                 cost_breakdown |-> result.cost_breakdown,
                 remote_work_friendly_spots |-> result.remote_work_spots,
                 optimization_score |-> result.optimization_score,
                 carbon_footprint |-> result.carbon_footprint,
                 weather_insights |-> result.weather_insights ],
      risk_score |-> result.risk_score,
      confidence |-> result.confidence_scores,
      optimization_summary |-> result.optimization_summary,
      agent_logs |-> result.logs ]

ProgressEvent(agent, progress, step) ==
    [ type |-> "progress", agent |-> agent, progress |-> progress,
      step |-> step, total_steps |-> Len(_AGENT_ORDER) ]

\* the progress burst plan_stream sends for a cached result
CachedBurst ==
    [ i \in DOMAIN _AGENT_ORDER |->
        ProgressEvent(_AGENT_ORDER[i],
                      RoundDiv(i * 100, Len(_AGENT_ORDER), FALSE), i) ]

StreamProgress(node_name, step) ==
    ProgressEvent(node_name,
                  Min(RoundDiv(step * 100, Len(_AGENT_ORDER), FALSE), 99), step)

\* ------------------------------------------------------------ the requests
OriginCities == {"Delhi"}
\* the budgets a prompt can state, in rupees: none, one that most trips
\* exceed, one that most trips fit, and two that are followed with one trip
\* only (see PromptOK)
Budgets == {0, 55670, 60000, 88482, 150000}
Peoples == {<<>>, <<0>>}
Accommodations == {{}, {"luxury hotel"}, {"hostel"}}

\* the sequences of distinct known cities _extract_cities can return
CitySeqs ==
    UNION { { q \in [1..n -> KnownCities] :
                \A i, j \in 1..n : i # j => q[i] # q[j] } : n \in 0..MaxDest }

\* the duration _extract_duration reads from "two weeks"
TwoWeeks == 14

\* what _extract_set finds for TRIP_TYPES; the word "luxury" is a key of
\* TRIP_TYPES and the one key of ACCOMMODATION_KEYWORDS for "luxury hotel"
TripTypes == { <<>>, <<"honeymoon">>, <<"luxury">> }

\* what _extract_month returns: nothing, a month that is among the best
\* months of every city, and one that is among those of none
Months == { NONE, "March", "July" }

Prompts ==
    { [ cities |-> c, origin |-> o, has_words |-> w, days |-> d,
        budget |-> b, people |-> t, accommodation |-> a, trip_type |-> y,
        month |-> m ] :
        c \in CitySeqs, o \in OriginCities \cup {NONE}, w \in BOOLEAN,
        d \in {<<>>, <<TwoWeeks>>} \cup { <<n>> : n \in 0..MaxDuration },
        b \in Budgets, t \in Peoples, a \in Accommodations, y \in TripTypes,
        m \in Months }

\* a "from X" phrase is kept only when X is a known city, which the city scan
\* then finds as well; a prompt in which a city is found has word characters.
\* A prompt in which no city is found is one of two texts: the empty one, and
\* "a relaxing trip somewhere warm and sunny with friends", in which the
\* extractor finds nothing and which, stripped and title-cased, is
\* FallbackCity.
\* A prompt has the trip type "luxury" when it has the accommodation
\* "luxury hotel", and then only.
\* The prompts followed: those that count the travelers say nothing of the
\* accommodation, those of a honeymoon say nothing of the origin, the
\* budget, the travelers or the accommodation, the budgets of 55670 and 88482
\* come with one luxury trip of three days to Tokyo and Kyoto, those of
\* two weeks name one city at most and nothing else, and those that name a
\* month say nothing but the cities and the days
PromptOK(p) ==
    /\ p.origin # NONE => p.origin \in Range(p.cities)
    /\ p.cities # <<>> => p.has_words
    /\ p.cities = <<>> =>
          /\ p.days = <<>>
          /\ p.budget = 0
          /\ p.people = <<>>
          /\ p.accommodation = {}
          /\ p.trip_type = <<>>
          /\ p.month = NONE
    /\ "luxury hotel" \in p.accommodation <=> "luxury" \in Range(p.trip_type)
    /\ p.people # <<>> => p.accommodation = {}
    /\ "honeymoon" \in Range(p.trip_type) =>
          /\ p.origin = NONE
          /\ p.budget = 0
          /\ p.people = <<>>
          /\ p.accommodation = {}
    /\ p.budget \in {55670, 88482} =>
          /\ p.cities = <<"Tokyo", "Kyoto">>
          /\ p.origin = NONE
          /\ p.days = <<3>>
          /\ p.people = <<>>
          /\ p.accommodation = {"luxury hotel"}
    /\ p.days = <<TwoWeeks>> =>
          /\ Len(p.cities) <= 1
          /\ p.origin = NONE
          /\ p.budget = 0
          /\ p.people = <<>>
          /\ p.accommodation = {}
          /\ p.trip_type = <<>>
    /\ p.month # NONE =>
          /\ p.origin = NONE
          /\ p.budget = 0
          /\ p.people = <<>>
          /\ p.accommodation = {}
          /\ p.trip_type = <<>>
          /\ p.days # <<TwoWeeks>>

\* no second call has been made
PeerIdle ==
    [ svc |-> "idle", node |-> "idle", ran |-> <<>>, failed |-> NONE,
      state |-> NONE, store |-> {}, response |-> <<>> ]

Init ==
    /\ prompt \in { p \in Prompts : PromptOK(p) }
    /\ mode \in Modes
    /\ svc = "start"
    /\ node = "idle"
    /\ ran = <<>>
    /\ failed = NONE
    /\ state = NONE
    /\ opt = NONE
    /\ events = <<>>
    /\ response = <<>>
    /\ cache = <<>>
    /\ store = {}
    /\ peer = PeerIdle
    /\ call = <<>>

\* ------------------------------------------------- cache lookup (both entry
\* points): a hit answers from the cache, a miss starts the graph.  On a hit
\* plan returns the cached response; plan_stream holds it and yields the
\* progress burst, one event at a time, and then the result event.
CacheHit ==
    /\ svc = "start"
    /\ prompt \in DOMAIN cache
    /\ response' = << cache[prompt] >>
    /\ svc' = IF mode = "stream" THEN "burst" ELSE "done"
    /\ UNCHANGED << call, peer, prompt, mode, node, ran, failed, state, opt,
                    events, cache, store >>

\* one yield of the burst: the progress event of the next name of _AGENT_ORDER
BurstYield ==
    /\ svc = "burst"
    /\ Len(events) < Len(_AGENT_ORDER)
    /\ events' = Append(events, CachedBurst[Len(events) + 1])
    /\ UNCHANGED << call, peer, prompt, mode, svc, node, ran, failed, state, opt,
                    response, cache, store >>

\* the last yield of the burst: the result event with the response read
BurstResult ==
    /\ svc = "burst"
    /\ Len(events) = Len(_AGENT_ORDER)
    /\ events' = Append(events, [ type |-> "result", data |-> response[1] ])
    /\ svc' = "done"
    /\ UNCHANGED << call, peer, prompt, mode, node, ran, failed, state, opt,
                    response, cache, store >>

CacheMiss ==
    /\ svc = "start"
    /\ prompt \notin DOMAIN cache
    /\ state' = _build_initial_state(prompt)
    /\ node' = EntryPoint
    /\ svc' = "running"
    /\ UNCHANGED << call, peer, prompt, mode, ran, failed, opt, events, response, cache,
                    store >>

\* ----------------------------------------------------- the graph's nodes
\* the graph is about to call the node
At(name) == svc = "running" /\ node = name

\* a node returns: the graph moves along its edge, and plan_stream yields the
\* progress event of the node
Advance(name, s2) ==
    /\ At(name)
    /\ state' = s2
    /\ ran' = Append(ran, name)
    /\ node' = Edge(name)
    /\ events' = IF mode = "stream"
                 THEN Append(events, StreamProgress(name, Len(ran) + 1))
                 ELSE events
    /\ UNCHANGED << call, peer, prompt, mode, svc, failed, response, cache >>

\* variant: the exception is swallowed and the graph moves on
Raise_Swallowed(name) ==
    /\ svc = "running"
    /\ node = name
    /\ failed' = name
    /\ node' = Edge(name)
    /\ UNCHANGED << call, peer, prompt, mode, svc, ran, state, opt, events, response,
                    cache, store >>

\* a node raises: ainvoke propagates the exception out of plan; plan_stream
\* catches it and yields one error event
Raise(name) ==
    /\ svc = "running"
    /\ node = name
    /\ failed' = name
    /\ node' = "aborted"
    /\ svc' = IF mode = "stream" THEN "done" ELSE "raised"
    /\ events' = IF mode = "stream"
                 THEN Append(events, [ type |-> "error" ])
                 ELSE events
    /\ UNCHANGED << call, peer, prompt, mode, ran, state, opt, response, cache, store >>

IntentStage ==
    /\ Advance("intent_extractor", IntentRun(state))
    /\ UNCHANGED << opt, store >>

MemoryStage ==
    /\ Advance("memory", MemoryRun(state, MemoryQuery(store)))
    /\ store' = store \cup { MemoryKey(state.intent) }
    /\ UNCHANGED opt

\* the vector store is unavailable: store.query raises
MemoryRaise == Raise("memory")

PlannerStage ==
    /\ Advance("planner", PlannerRun(state))
    /\ UNCHANGED << opt, store >>

\* what the flight search returns for the legs: the catalogue's options, or
\* nothing for every leg when the search finds no flight
FlightSearch(intent, found) ==
    LET legs == FlightLegs(intent)
    IN  [ i \in DOMAIN legs |->
            IF found THEN search_flights(legs[i][1], legs[i][2]) ELSE <<>> ]

FlightStage ==
    /\ Advance("flight", FlightRun(state, FlightSearch(state.intent, TRUE)))
    /\ ~ FlightRaises(FlightSearch(state.intent, TRUE))
    /\ UNCHANGED << opt, store >>

FlightRaise ==
    /\ Raise("flight")
    /\ FlightRaises(FlightSearch(state.intent, FALSE))

HotelSearch(intent, found) ==
    LET destinations == DestinationsOrUnknown(intent)
    IN  [ i \in DOMAIN destinations |->
            IF found THEN search_hotels(destinations[i]) ELSE <<>> ]

HotelStage ==
    /\ Advance("hotel", HotelRun(state, HotelSearch(state.intent, TRUE)))
    /\ ~ HotelRaises(HotelSearch(state.intent, TRUE))
    /\ UNCHANGED << opt, store >>

HotelRaise ==
    /\ Raise("hotel")
    /\ HotelRaises(HotelSearch(state.intent, FALSE))

\* what the activity search returns for the cities of the itinerary: the
\* catalogue's pools, or nothing for every city when it finds no activity
ActivityPools(itinerary, found) ==
    [ ck \in { Lower(itinerary[i].city) : i \in DOMAIN itinerary } |->
        IF found THEN search_activities(ck) ELSE <<>> ]

\* the empty answer is followed for the requests that set no budget and are
\* no honeymoon
ExperienceStage ==
    \E found \in BOOLEAN :
        /\ Advance("experience",
                   ExperienceRun(state,
                                 ActivityPools(state.day_by_day_itinerary, found)))
        /\ ~ found => (budget_max(state.intent) = 0
                          /\ "honeymoon" \notin Range(state.intent.trip_type))
        /\ UNCHANGED << opt, store >>

\* ------------------------------------------- how round() settles the values
\* that fall exactly between two results: one bit for each place where a stage
\* rounds a float
MaxLegs == MaxDest + 1
CarbonTieSites == { CarbonSite(i) : i \in 1..MaxLegs }
RiskTieSites == {"risk_score"}
ConfidenceTieSites == {"activity_data", "overall"}
TieSites ==
    BudgetTieSites \cup CarbonTieSites \cup RiskTieSites \cup ConfidenceTieSites

NoTies == [ k \in TieSites |-> FALSE ]

\* the places where the run of a stage on s, settled as t tells, rounds a
\* value that stands half-way
StageAtTie(name, s, t) ==
    CASE name = "budget" -> BudgetOptimize(s, t).at_tie
      [] name = "carbon" -> CarbonAtTie(s)
      [] name = "risk" -> RiskAnalyze(s, t).at_tie
      [] name = "confidence" -> ConfidenceAtTie(s, t)
      [] OTHER -> {}

\* the settlements that change what the stage returns: a bit matters only at
\* a place the run reaches with a half-way value
RECURSIVE TieClosure(_, _, _)
TieClosure(name, s, T) ==
    Bind(UNION { { [ t EXCEPT ![k] = TRUE ] : k \in StageAtTie(name, s, t) } :
                 t \in T }, LAMBDA more :
        IF more \subseteq T THEN T ELSE TieClosure(name, s, T \cup more) )

StageTies(name, s) == TieClosure(name, s, {NoTies})

BudgetStage ==
    /\ At("budget")
    /\ \E ties \in StageTies("budget", state) :
        \E r \in { BudgetOptimize(state, ties) } :
            /\ Advance("budget", r.state)
            /\ opt' = [ cb |-> state.cost_breakdown,
                        before |-> r.before,
                        after_first |-> r.after_first,
                        over |-> r.over,
                        rounds |-> r.rounds,
                        stays |-> state.stay_recommendations,
                        days |-> state.day_by_day_itinerary ]
            /\ UNCHANGED store

CarbonStage ==
    /\ At("carbon")
    /\ \E ties \in StageTies("carbon", state) :
        /\ Advance("carbon", CarbonRun(state, ties))
        /\ UNCHANGED << opt, store >>

RiskStage ==
    /\ At("risk")
    /\ \E ties \in StageTies("risk", state) :
        /\ Advance("risk", RiskRun(state, ties))
        /\ UNCHANGED << opt, store >>

ConfidenceStage ==
    /\ At("confidence")
    /\ \E ties \in StageTies("confidence", state) :
        /\ Advance("confidence", ConfidenceRun(state, ties))
        /\ UNCHANGED << opt, store >>

ValidationStage ==
    /\ Advance("validation", ValidationRun(state))
    /\ UNCHANGED << opt, store >>

\* ------------------------------------------- the graph has reached END
\* cache.set_json(cache_key, value): the entry of the prompt is written (the
\* cache of a behaviour holds entries of its one prompt only)
CacheSet(value) ==
    [ k \in DOMAIN cache \cup {prompt} |->
        IF k = prompt THEN value ELSE cache[k] ]

\* plan: ainvoke has returned and the response is built
Respond ==
    /\ mode = "plan"
    /\ svc = "running"
    /\ node = "END"
    /\ response' = << _build_response(state) >>
    /\ svc' = "storing"
    /\ UNCHANGED << call, peer, prompt, mode, node, ran, failed, state, opt,
                    events, cache, store >>

\* plan: the response is written to the cache and returned
PlanStore ==
    /\ svc = "storing"
    /\ cache' = CacheSet(response[1])
    /\ svc' = "done"
    /\ UNCHANGED << call, peer, prompt, mode, node, ran, failed, state, opt,
                    events, response, store >>

\* plan_stream: the response is built and the closing progress event yielded
StreamDone ==
    /\ mode = "stream"
    /\ svc = "running"
    /\ node = "END"
    /\ response' = << _build_response(state) >>
    /\ events' = Append(events, ProgressEvent("done", 100, Len(_AGENT_ORDER)))
    /\ svc' = "closing"
    /\ UNCHANGED << call, peer, prompt, mode, node, ran, failed, state, opt,
                    cache, store >>

\* plan_stream: the result event is yielded
StreamResult ==
    /\ svc = "closing"
    /\ events' = Append(events, [ type |-> "result", data |-> response[1] ])
    /\ svc' = "yielded"
    /\ UNCHANGED << call, peer, prompt, mode, node, ran, failed, state, opt,
                    response, cache, store >>

\* plan_stream: resumed after the result event, it writes the response to
\* the cache and ends
StreamStore ==
    /\ svc = "yielded"
    /\ cache' = CacheSet(response[1])
    /\ svc' = "done"
    /\ UNCHANGED << call, peer, prompt, mode, node, ran, failed, state, opt,
                    events, response, store >>

\* the consumer of plan_stream stops reading: the generator is closed at the
\* yield where it stands, which is no Exception, so that no error event
\* follows and nothing after the yield is run
StreamClose ==
    /\ mode = "stream"
    /\ svc \in {"running", "burst", "closing", "yielded"}
    /\ events # <<>>
    /\ svc' = "closed"
    /\ UNCHANGED << call, peer, prompt, mode, node, ran, failed, state, opt,
                    events, response, cache, store >>

\* the entry of the prompt, written with ex=ttl, expires
CacheExpire ==
    /\ prompt \in DOMAIN cache
    /\ cache' = <<>>
    /\ UNCHANGED << call, peer, prompt, mode, svc, node, ran, failed, state, opt,
                    events, response, store >>

\* the same prompt is sent again, to either entry point: get_travel_service
\* builds a TravelService for the request, and with it a graph and an empty
\* vector store; the cache is the one of the process
NewRequest ==
    /\ svc \in {"done", "raised", "closed"}
    /\ mode' \in Modes
    /\ svc' = "start"
    /\ node' = "idle"
    /\ ran' = <<>>
    /\ failed' = NONE
    /\ state' = NONE
    /\ opt' = NONE
    /\ events' = <<>>
    /\ response' = <<>>
    /\ store' = {}
    /\ UNCHANGED << call, peer, prompt, cache >>

Next ==
    \/ CacheHit
    \/ BurstYield
    \/ BurstResult
    \/ CacheMiss
    \/ IntentStage
    \/ MemoryStage
    \/ MemoryRaise
    \/ PlannerStage
    \/ FlightStage
    \/ FlightRaise
    \/ HotelStage
    \/ HotelRaise
    \/ ExperienceStage
    \/ BudgetStage
    \/ CarbonStage
    \/ RiskStage
    \/ ConfidenceStage
    \/ ValidationStage
    \/ Respond
    \/ PlanStore
    \/ StreamDone
    \/ StreamResult
    \/ StreamStore
    \/ StreamClose
    \/ CacheExpire
    \/ NewRequest

Spec == Init /\ [][Next]_vars

\* ------------------------------------------- two plan calls at the same time
\* TravelService.plan awaits the cache read, the graph and the cache write, so
\* a second call with the same text can run between any two steps of the
\* first.  The second call is a plan call on a TravelService of its own, with
\* its own vector store (items); the collaborators answer it with the
\* catalogue.
StageRun(name, s, ties, items) ==
    CASE name = "intent_extractor" -> IntentRun(s)
      [] name = "memory" -> MemoryRun(s, MemoryQuery(items))
      [] name = "planner" -> PlannerRun(s)
      [] name = "flight" -> FlightRun(s, FlightSearch(s.intent, TRUE))
      [] name = "hotel" -> HotelRun(s, HotelSearch(s.intent, TRUE))
      [] name = "experience" ->
            ExperienceRun(s, ActivityPools(s.day_by_day_itinerary, TRUE))
      [] name = "budget" -> BudgetOptimize(s, ties).state
      [] name = "carbon" -> CarbonRun(s, ties)
      [] name = "risk" -> RiskRun(s, ties)
      [] name = "confidence" -> ConfidenceRun(s, ties)
      [] name = "validation" -> ValidationRun(s)

PeerCall ==
    /\ peer.svc = "idle"
    /\ peer' = [peer EXCEPT !.svc = "start"]
    /\ UNCHANGED << call, prompt, mode, svc, node, ran, failed, state, opt, events,
                    response, cache, store >>

PeerCacheHit ==
    /\ peer.svc = "start"
    /\ prompt \in DOMAIN cache
    /\ peer' = [peer EXCEPT !.svc = "done", !.response = << cache[prompt] >>]
    /\ UNCHANGED << call, prompt, mode, svc, node, ran, failed, state, opt, events,
                    response, cache, store >>

PeerCacheMiss ==
    /\ peer.svc = "start"
    /\ prompt \notin DOMAIN cache
    /\ peer' = [peer EXCEPT !.svc = "running", !.node = EntryPoint,
                            !.state = _build_initial_state(prompt)]
    /\ UNCHANGED << call, prompt, mode, svc, node, ran, failed, state, opt, events,
                    response, cache, store >>

PeerStage ==
    /\ peer.svc = "running"
    /\ peer.node \in Range(_AGENT_ORDER)
    /\ \E ties \in StageTies(peer.node, peer.state) :
        /\ peer' = [peer EXCEPT !.state = StageRun(peer.node, peer.state, ties,
                                                   peer.store),
                                !.ran = Append(peer.ran, peer.node),
                                !.node = Edge(peer.node),
                                !.store = IF peer.node = "memory"
                                          THEN peer.store
                                                 \cup { MemoryKey(peer.state.intent) }
                                          ELSE peer.store]
        /\ UNCHANGED << call, prompt, mode, svc, node, ran, failed, state, opt, events,
                        response, cache, store >>

\* the vector store is unavailable to the second call
PeerRaise ==
    /\ peer.svc = "running"
    /\ peer.node = "memory"
    /\ peer' = [peer EXCEPT !.svc = "raised", !.node = "aborted",
                            !.failed = "memory"]
    /\ UNCHANGED << call, prompt, mode, svc, node, ran, failed, state, opt, events,
                    response, cache, store >>

PeerRespond ==
    /\ peer.svc = "running"
    /\ peer.node = "END"
    /\ peer' = [peer EXCEPT !.svc = "storing",
                            !.response = << _build_response(peer.state) >>]
    /\ UNCHANGED << call, prompt, mode, svc, node, ran, failed, state, opt, events,
                    response, cache, store >>

PeerStore ==
    /\ peer.svc = "storing"
    /\ peer' = [peer EXCEPT !.svc = "done"]
    /\ cache' = CacheSet(peer.response[1])
    /\ UNCHANGED << call, prompt, mode, svc, node, ran, failed, state, opt, events,
                    response, store >>

\* the texts followed with two calls: those in which no city is found, and
\* those of one city, a duration of two days, the budget of 60000 or none,
\* and nothing else
ConcurrentPrompt(p) ==
    /\ Len(p.cities) <= 1
    /\ p.origin = NONE
    /\ p.cities # <<>> => p.days = << 2 >>
    /\ p.budget \in {0, 60000}
    /\ p.people = <<>>
    /\ p.accommodation = {}
    /\ p.trip_type = <<>>
    /\ p.month = NONE

InitConcurrent == Init /\ ConcurrentPrompt(prompt)

NextConcurrent ==
    \/ Next
    \/ PeerCall
    \/ PeerCacheHit
    \/ PeerCacheMiss
    \/ PeerStage
    \/ PeerRaise
    \/ PeerRespond
    \/ PeerStore

SpecConcurrent == InitConcurrent /\ [][NextConcurrent]_vars

\* ------------------------------------ the scorer behind any flight search
\* the flight search is a collaborator: here a plain request runs through
\* every stage of the pipeline, and the search answers each leg with the
\* catalogue's options or with those options and one price_inr of zero or
\* below in place of one of them.  ConfidenceAgent.run reads the answers as
\* the flight stage stored them in state['flight_options'].
ScorerPrompt ==
    [ cities |-> <<"Tokyo">>, origin |-> NONE, has_words |-> TRUE,
      days |-> <<2>>, budget |-> 0, people |-> <<>>, accommodation |-> {},
      trip_type |-> <<>>, month |-> NONE ]

\* the answers followed for one leg
ScorerLegAnswers(options) ==
    {options} \cup { [ options EXCEPT ![k] = p ] :
                        k \in DOMAIN options, p \in {0 - 5, 0} }

\* the answers followed for the legs of a request
ScorerAnswers(legOptions) ==
    { found \in [ DOMAIN legOptions ->
                    UNION { ScorerLegAnswers(legOptions[i]) :
                              i \in DOMAIN legOptions } ] :
        \A i \in DOMAIN legOptions : found[i] \in ScorerLegAnswers(legOptions[i]) }

ScorerFlightStage ==
    /\ At("flight")
    /\ \E found \in ScorerAnswers(FlightSearch(state.intent, TRUE)) :
           Advance("flight", FlightRun(state, found))
    /\ UNCHANGED << opt, store >>

InitScorer == Init /\ prompt = ScorerPrompt /\ mode = "plan"

NextScorer ==
    \/ CacheMiss
    \/ IntentStage
    \/ MemoryStage
    \/ PlannerStage
    \/ ScorerFlightStage
    \/ HotelStage
    \/ ExperienceStage
    \/ BudgetStage
    \/ CarbonStage
    \/ RiskStage
    \/ ConfidenceStage
    \/ ValidationStage
    \/ Respond
    \/ PlanStore

SpecScorer == InitScorer /\ [][NextScorer]_vars

\* ------------------------------------------- the distance lookup on its own
\* _get_distance is called for a pair of the curated table, each city under
\* any of its spellings, and then for the same two names the other way round
\* the names _DISTANCE_KM and _COORDS list
DistanceCities ==
    { "delhi", "tokyo", "kyoto", "osaka", "paris",
      "london", "dubai", "singapore", "bangkok", "bali",
      "goa", "jaipur", "mumbai", "bangalore", "kolkata",
      "kuala lumpur", "new york", "rome", "istanbul", "sydney",
      "chennai", "hyderabad", "amsterdam", "berlin", "vienna",
      "zurich", "cairo", "nairobi", "hong kong", "seoul",
      "barcelona", "madrid", "varanasi", "kochi", "prague",
      "san francisco", "los angeles" }

DistanceSpellings(k) ==
    { n \in DistanceCities \cup DOMAIN LowerTable \cup DOMAIN StripTable :
        Strip(Lower(n)) = k }

InitDistance ==
    /\ prompt = NONE
    /\ mode = NONE
    /\ svc = "idle"
    /\ node = "idle"
    /\ ran = <<>>
    /\ failed = NONE
    /\ state = NONE
    /\ opt = NONE
    /\ events = <<>>
    /\ response = <<>>
    /\ cache = <<>>
    /\ store = {}
    /\ peer = PeerIdle
    /\ \E o \in DOMAIN _DISTANCE_KM :
           \E d \in DOMAIN _DISTANCE_KM[o] :
               \E a \in DistanceSpellings(o) :
                   \E b \in DistanceSpellings(d) :
                       call = << [ pair |-> <<o, d>>, origin |-> a, dest |-> b,
                                   there |-> <<>>, back |-> <<>> ] >>

\* _get_distance(origin, dest)
DistanceThere ==
    /\ call # <<>>
    /\ call[1].there = <<>>
    /\ call' = << [ call[1] EXCEPT
                      !.there = << _get_distance(call[1].origin, call[1].dest) >> ] >>
    /\ UNCHANGED << peer, prompt, mode, svc, node, ran, failed, state, opt,
                    events, response, cache, store >>

\* _get_distance(dest, origin)
DistanceBack ==
    /\ call # <<>>
    /\ call[1].back = <<>>
    /\ call' = << [ call[1] EXCEPT
                      !.back = << _get_distance(call[1].dest, call[1].origin) >> ] >>
    /\ UNCHANGED << peer, prompt, mode, svc, node, ran, failed, state, opt,
                    events, response, cache, store >>

NextDistance ==
    \/ DistanceThere
    \/ DistanceBack

SpecDistance == InitDistance /\ [][NextDistance]_vars

\* ================================================================ claims
\* the stage that completed last in the current run
LastRan == IF ran = <<>> THEN "" ELSE ran[Len(ran)]

Ran(name) == name \in Range(ran)

\* C1 (as claimed): once the Allocator has run, the itinerary has exactly
\* duration_days entries, whatever the number of destinations.
C1_ExactlyDurationDays ==
    Ran("planner") =>
        Len(state.day_by_day_itinerary) = state.intent.duration_days

\* C1 (amended): once the Allocator has run, the itinerary has
\* max(duration_days, n) entries, n being the number of destinations counted
\* as 1 when there is none: exactly duration_days when duration_days >= n,
\* and one entry per destination otherwise.
C1_PlannerEntries ==
    Ran("planner") =>
        LET n == Max(1, Len(state.intent.destinations))
            d == state.intent.duration_days
        IN  /\ Len(state.day_by_day_itinerary) = Max(d, n)
            /\ d >= n => Len(state.day_by_day_itinerary) = d

\* a run with more destinations than days, just planned: one day for each
C1_Witness ==
    /\ LastRan = "planner"
    /\ Len(state.intent.destinations) = 2
    /\ state.intent.duration_days = 1
    /\ Len(state.day_by_day_itinerary) = 2

\* C2: after the Validator has run, total_estimated differs from the sum of
\* the four buckets by at most 1 rupee.
C2_TotalMatchesBuckets ==
    Ran("validation") =>
        LET cb == state.cost_breakdown
        IN  Abs(cb.total_estimated
                  - (cb.flights_estimated + cb.accommodation_estimated
                       + cb.activities_estimated + cb.transport_estimated))
              <= 1 * Milli

\* a validated run whose buckets the optimizer has cut to fractional amounts
C2_Witness ==
    /\ Ran("validation")
    /\ opt.over
    /\ opt.rounds >= 2
    /\ state.cost_breakdown.transport_estimated > 1 * Milli
    /\ state.cost_breakdown.total_estimated > 0

\* C3: when the total exceeds the ceiling, after the Budget Optimizer the
\* total is no larger than before, no bucket is larger than before, and
\* flights keep at least 95% of their value.
C3_Monotone ==
    (LastRan = "budget" /\ opt.over) =>
        LET cb == state.cost_breakdown
            b0 == opt.before
        IN  /\ cb.total_estimated <= b0.total_estimated
            /\ cb.flights_estimated <= b0.flights_estimated
            /\ cb.accommodation_estimated <= b0.accommodation_estimated
            /\ cb.activities_estimated <= b0.activities_estimated
            /\ cb.transport_estimated <= b0.transport_estimated
            /\ b0.flights_estimated - cb.flights_estimated
                  <= b0.flights_estimated \div 20

\* an over-budget run in which both passes have cut, flights included
C3_Witness ==
    /\ LastRan = "budget"
    /\ opt.over
    /\ opt.rounds >= 3
    /\ state.cost_breakdown.flights_estimated < opt.before.flights_estimated
    /\ state.cost_breakdown.total_estimated < opt.before.total_estimated

\* what the Budget Optimizer was given: the sum of the four buckets and the
\* ceiling, in thousandths
PreTotal ==
    opt.cb.flights_estimated + opt.cb.accommodation_estimated
      + opt.cb.activities_estimated + opt.cb.transport_estimated

Ceiling == budget_max(state.intent) * Milli

SameBuckets(a, b) ==
    /\ a.flights_estimated = b.flights_estimated
    /\ a.accommodation_estimated = b.accommodation_estimated
    /\ a.activities_estimated = b.activities_estimated
    /\ a.transport_estimated = b.transport_estimated

\* C4: when the total is within the ceiling, or no positive ceiling is set,
\* the Budget Optimizer leaves the four buckets, every stay's nightly budget
\* and every day's estimated cost as they were; and running it again on a
\* result that is within budget changes no bucket.
C4_WithinBudgetUntouched ==
    LastRan = "budget" =>
        /\ (Ceiling = 0 \/ PreTotal <= Ceiling) =>
              /\ SameBuckets(state.cost_breakdown, opt.cb)
              /\ state.stay_recommendations = opt.stays
              /\ state.day_by_day_itinerary = opt.days
        /\ (Ceiling = 0 \/ state.cost_breakdown.total_estimated <= Ceiling) =>
              \A ties \in StageTies("budget", state) :
                  SameBuckets(BudgetOptimize(state, ties).state.cost_breakdown,
                              state.cost_breakdown)

\* a run whose total is under its positive ceiling, optimized with costs in
\* the buckets and a stay to propagate to
C4_Witness ==
    /\ LastRan = "budget"
    /\ Ceiling > 0
    /\ PreTotal > 0
    /\ PreTotal <= Ceiling
    /\ opt.stays # <<>>
    /\ state.cost_breakdown.accommodation_estimated > 0
    /\ state.cost_breakdown.activities_estimated > 0

\* 5% of flights + 40% of transport + 60% of accommodation + 75% of
\* activities (1, 8, 12 and 15 twentieths), in whole thousandths; each bucket
\* is split into twenty times a quotient plus a remainder, which keeps the
\* products small
HeadroomWhole(cb) ==
    LET m(x) == x \div 20
        s(x) == x % 20
    IN  m(cb.flights_estimated) + 8 * m(cb.transport_estimated)
          + 12 * m(cb.accommodation_estimated) + 15 * m(cb.activities_estimated)
          + (s(cb.flights_estimated) + 8 * s(cb.transport_estimated)
               + 12 * s(cb.accommodation_estimated)
               + 15 * s(cb.activities_estimated)) \div 20

\* the overshoot is positive and at most the total headroom
OvershootWithinHeadroom ==
    /\ Ceiling > 0
    /\ PreTotal > Ceiling
    /\ PreTotal - Ceiling <= HeadroomWhole(opt.cb)

C6_StagesInOrder ==
    LET order == << "intent_extractor", "memory", "planner", "flight",
                    "hotel", "experience", "budget", "carbon", "risk",
                    "confidence", "validation" >>
    IN  (svc = "running" /\ failed = NONE) =>
            /\ Len(ran) <= Len(order)
            /\ ran = SubSeq(order, 1, Len(ran))
            /\ Len(ran) < Len(order) => node = order[Len(ran) + 1]
            /\ Len(ran) = Len(order) => node = "END"

\* a run at its end, all eleven stages completed
C6_Witness ==
    /\ svc = "running"
    /\ node = "END"
    /\ Len(ran) = 11
    /\ ran[8] = "carbon"
    /\ ran[9] = "risk"

\* C7: if a stage raises, no later stage runs and the stage is not retried
\* (the run stops with the stages completed before it), no result is
\* produced (plan raises; plan_stream ends on an error event and yields no
\* result event), and nothing is written to the cache for the prompt.
C7_StageFailureAborts ==
    /\ [](failed # NONE =>
            /\ node = "aborted"
            /\ svc = (IF mode = "stream" THEN "done" ELSE "raised")
            /\ ~ Ran(failed)
            /\ response = <<>>
            /\ \A i \in DOMAIN events : events[i].type # "result"
            /\ mode = "stream" =>
                  /\ events # <<>>
                  /\ events[Len(events)].type = "error"
            /\ mode = "plan" => events = <<>>
            /\ prompt \notin DOMAIN cache)
    /\ [][failed # NONE =>
            /\ failed' = NONE
            /\ ran' = <<>>
            /\ response' = <<>>
            /\ events' = <<>>
            /\ cache' = cache]_vars

\* a streamed run whose Hotel stage raised after four stages had completed
C7_Witness ==
    /\ failed = "hotel"
    /\ mode = "stream"
    /\ Len(ran) = 4
    /\ Len(events) = 5
    /\ svc = "done"

NoDestinationWarning == "No destinations could be extracted from the prompt."

\* C8: when the Intent Extractor yields zero destinations (whatever the
\* duration and the traveler count, zero included), no later stage raises on
\* it: the Allocator has a destination to divide the days by, the Flight
\* stage finds a cheapest option on every leg and the Hotel stage a hotel
\* for every destination; and when the run reaches its end all eleven stages
\* have completed and the no-destination warning is recorded.
C8_ZeroDestinationsCompletes ==
    (svc = "running" /\ ran # <<>> /\ state.intent.destinations = <<>>) =>
        /\ node \in Range(_AGENT_ORDER) \cup {"END"}
        /\ node = "planner" => Len(DestinationsOrUnknown(state.intent)) > 0
        /\ node = "flight" => ~ FlightRaises(FlightSearch(state.intent, TRUE))
        /\ node = "hotel" => ~ HotelRaises(HotelSearch(state.intent, TRUE))
        /\ node = "END" =>
              /\ Len(ran) = 11
              /\ LastRan = "validation"
              /\ \E i \in DOMAIN state.validation_errors :
                    state.validation_errors[i] = NoDestinationWarning

\* a run without destinations, of zero days and zero travelers, at its end
\* with the warning recorded
C8_Witness ==
    /\ svc = "running"
    /\ node = "END"
    /\ state.intent.destinations = <<>>
    /\ state.intent.duration_days = 0
    /\ state.intent.traveler_count = 0
    /\ NoDestinationWarning \in Range(state.validation_errors)

\* C9: after Validation the day numbers of the itinerary are 1, 2, ..., N in
\* list order, N being the number of entries.
C9_DaysContiguous ==
    Ran("validation") =>
        \A i \in DOMAIN state.day_by_day_itinerary :
            state.day_by_day_itinerary[i].day = i

\* a validated itinerary of several days over two destinations
C9_Witness ==
    /\ Ran("validation")
    /\ Len(state.intent.destinations) = 2
    /\ Len(state.day_by_day_itinerary) >= 3
    /\ state.day_by_day_itinerary[3].day = 3

\* C10: for every destination, the nights the Hotel Selector charges equal
\* the number of itinerary entries the Allocator gave that destination.
C10_NightsMirrorDays ==
    LastRan = "hotel" =>
        LET destinations == DestinationsOrUnknown(state.intent)
            itinerary == state.day_by_day_itinerary
        IN  \A i \in DOMAIN destinations :
                HotelNights(state.intent.duration_days, Len(destinations), i - 1)
                  = Cardinality({ k \in DOMAIN itinerary :
                                    itinerary[k].city = destinations[i] })

\* C11 (as claimed): after the Experience Curator, every day whose city has a
\* pool of at least 3 activities (and the search returned it) carries exactly 2 activities when it is an
\* arrival day (the city differs from the day before) or the trip types
\* include relaxation or honeymoon, and exactly 3 otherwise.
C11_ActivitiesPerDay ==
    LastRan = "experience" =>
        LET days == state.day_by_day_itinerary
            relaxed == \E i \in DOMAIN state.intent.trip_type :
                          state.intent.trip_type[i] \in {"relaxation", "honeymoon"}
        IN  \A i \in DOMAIN days :
                (/\ state.experiences # <<>>
                 /\ Len(search_activities(days[i].city)) >= 3) =>
                    Len(days[i].activities)
                      = (IF (i > 1 /\ days[i - 1].city # days[i].city) \/ relaxed
                         THEN 2 ELSE 3)

\* C12 (as claimed): after the Experience Curator, in a city whose pool has
\* at least 6 activities, no activity name is on the lists of two
\* consecutive days spent in that city.
C12_NoRepeatOnConsecutiveDays ==
    LastRan = "experience" =>
        LET days == state.day_by_day_itinerary
        IN  \A i \in DOMAIN days :
                (/\ i < Len(days)
                 /\ days[i].city = days[i + 1].city
                 /\ Len(search_activities(days[i].city)) >= 6) =>
                    Range(days[i].activities) \cap Range(days[i + 1].activities)
                      = {}

\* C13: once the Allocator has run, destination i (counted from 0) holds
\* base + 1 days if i < remainder and base days otherwise, base being the even
\* share of the duration (at least 1) and remainder what is left of the
\* duration; the counts never increase with i and differ by at most 1; and a
\* day carries the arrival/check-in note exactly when it is the first day of a
\* destination other than the first.
C13_FrontLoadedWithArrivals ==
    LastRan = "planner" =>
        LET dests == DestinationsOrUnknown(state.intent)
            n == Len(dests)
            duration == state.intent.duration_days
            base == Max(duration \div n, 1)
            remainder == duration - base * n
            days == state.day_by_day_itinerary
            count(k) == Cardinality({ i \in DOMAIN days : days[i].city = dests[k] })
        IN  /\ \A k \in 1..n :
                   count(k) = base + (IF k - 1 < remainder THEN 1 ELSE 0)
            /\ \A j, k \in 1..n :
                   j < k => (count(j) >= count(k) /\ count(j) - count(k) <= 1)
            /\ \A i \in DOMAIN days :
                   days[i].weather_note = ArrivalNote
                     <=> (i > 1 /\ days[i - 1].city # days[i].city)

\* three days over two destinations, just planned: two days for the first,
\* one for the second, whose only day is the arrival day
C13_Witness ==
    /\ LastRan = "planner"
    /\ Len(state.intent.destinations) = 2
    /\ state.intent.duration_days = 3
    /\ Len(state.day_by_day_itinerary) = 3
    /\ state.day_by_day_itinerary[2].city = state.intent.destinations[1]
    /\ state.day_by_day_itinerary[3].city = state.intent.destinations[2]
    /\ state.day_by_day_itinerary[3].weather_note = ArrivalNote

\* C14 (as claimed): after the carbon stage every flight leg carries the
\* emission of the factor 0.255 below 1500 km, 0.195 from 1500 km to 3500 km
\* inclusive (the 3500 km of an unresolved pair among them) and 0.150 above
\* 3500 km, times the distance and the traveler count.
C14_EmissionFactorTiers ==
    Ran("carbon") =>
        LET legs == state.carbon_footprint.legs
            factor(dist) == IF dist < 1500 THEN 255
                            ELSE IF dist <= 3500 THEN 195
                            ELSE 150
        IN  \A i \in DOMAIN legs :
                legs[i].mode = "flight" =>
                    legs[i].co2_kg
                      \in { RoundDiv(legs[i].distance_km * factor(legs[i].distance_km)
                                      * state.intent.traveler_count, 100, up) :
                              up \in BOOLEAN }

\* C15: the optimization score the Budget Optimizer writes lies within
\* [0, 10]; it is at least 5.0 whenever the final total is within the ceiling,
\* and exactly 7.5 whenever there is no positive ceiling.  (Scores in tenths.)
C15_ScoreBounds ==
    LastRan = "budget" =>
        LET score == state.optimization_score
            total == state.cost_breakdown.total_estimated
        IN  /\ 0 <= score /\ score <= 100
            /\ (Ceiling > 0 /\ total <= Ceiling) => score >= 50
            /\ Ceiling <= 0 => score = 75

\* a total far enough under its ceiling for the floor of 5.0 to apply
C15_Witness ==
    /\ LastRan = "budget"
    /\ Ceiling > 0
    /\ 3 * state.cost_breakdown.total_estimated < 2 * Ceiling
    /\ state.optimization_score = 50

\* C16 (as claimed): the budget-exposure sub-score the Risk Composer computes
\* from the spend/ceiling ratio lies within [1, 10]: 1.0 up to a ratio of 0.8,
\* rising linearly to 5 at 1.0 and on to 10 at 1.3, and 10 above 1.3.
\* (A quarter of the sub-score, in hundred-thousandths of a point.)
C16_BudgetExposureWithinRange ==
    (LastRan = "risk" /\ budget_max(state.intent) > 0) =>
        LET budget_risk == BudgetRisk(state.total_cost, budget_max(state.intent))
        IN  /\ 25000 <= budget_risk.q
            /\ budget_risk.q < 250000
                  \/ (budget_risk.q = 250000 /\ budget_risk.r = 0)

\* C17 (as claimed): the visa-required flag the Risk Composer writes is true
\* exactly when the visa collaborator reports 'required' for at least one
\* destination, each taken with its own country and those of unknown country
\* included; and no country is queried twice.
C17_VisaFlagIsOrOverDestinations ==
    LastRan = "risk" =>
        LET destinations == DestinationsOrUnknown(state.intent)
            details == state.visa_information.details
        IN  /\ state.visa_information.required
                  <=> \E i \in DOMAIN destinations :
                          get_visa_info(destinations[i],
                                        get_country_for_city(destinations[i])).required
            /\ \A i, j \in DOMAIN details :
                   i # j => details[i][1] # details[j][1]

\* C18 (as claimed): when a collaborator lookup returns an empty result set
\* (the flight options of a leg, the hotel options of a destination, or the
\* activities of a city) the run fails: a stage raises and no plan result is
\* returned.  An empty flight or hotel answer shows as the stage that raised,
\* an empty activity answer as an experience stage that fetched no activity.
C18_EmptyLookupFailsRun ==
    /\ failed \in {"flight", "hotel"} =>
          /\ response = <<>>
          /\ \A i \in DOMAIN events : events[i].type # "result"
    /\ (Ran("experience") /\ state.experiences = <<>>) =>
          /\ response = <<>>
          /\ \A i \in DOMAIN events : events[i].type # "result"

\* C19 (as claimed): when the query of the similarity store raises or returns
\* no item, the Memory stage sets memory_context to the empty string and the
\* pipeline goes on to the Allocator: the memory stage never aborts the run,
\* and it leaves an empty context when the store held nothing.
C19_MemoryDegradesGracefully ==
    /\ [](failed # "memory")
    /\ [][(svc = "running" /\ node = "memory" /\ MemoryQuery(store) = {}
              /\ node' # "memory") =>
             (node' = "planner" /\ state'.memory_context = {})]_vars

\* C20: a successful uncached plan_stream run has emitted exactly one
\* progress event per completed stage (eleven, with step 1..11 in pipeline
\* order and a percentage that never decreases) and then the result event as
\* its last event: there are as many progress events as stages.
C20_OneProgressEventPerStage ==
    (mode = "stream" /\ svc = "done" /\ failed = NONE /\ Len(ran) = Len(_AGENT_ORDER)) =>
        LET IsProgress(e) == e.type = "progress"
            progress == SelectSeq(events, IsProgress)
        IN  /\ Len(progress) = Len(_AGENT_ORDER)
            /\ \A i \in DOMAIN progress :
                   /\ progress[i].step = i
                   /\ progress[i].agent = _AGENT_ORDER[i]
                   /\ i > 1 => progress[i - 1].progress <= progress[i].progress
            /\ Len(events) = Len(_AGENT_ORDER) + 1
            /\ events[Len(events)].type = "result"

\* C21: a call that finds the text in the cache runs no stage and answers
\* with the cached response, and the cache is written only by a call whose
\* Validator has completed, with the response built from the validated
\* state; two plan calls with the same text may both miss and both run the
\* whole pipeline (the witness).
C21_HitRunsNothingStoreAfterValidator ==
    /\ [][(svc = "start" /\ svc' # "start" /\ prompt \in DOMAIN cache) =>
             (/\ node' = "idle"
              /\ ran' = <<>>
              /\ response' = << cache[prompt] >>)]_vars
    /\ []((node = "idle" /\ svc # "start") => (ran = <<>> /\ response # <<>>))
    /\ [][(peer.svc = "start" /\ peer'.svc # "start" /\ prompt \in DOMAIN cache) =>
             (/\ peer'.node = "idle"
              /\ peer'.ran = <<>>
              /\ peer'.response = << cache[prompt] >>)]_vars
    /\ []((peer.node = "idle" /\ peer.svc = "done") =>
             (peer.ran = <<>> /\ peer.response # <<>>))
    /\ [][(cache' # cache /\ prompt \in DOMAIN cache') =>
             \/ (/\ mode = "plan" /\ svc = "storing"
                 /\ Ran("validation")
                 /\ cache'[prompt] = _build_response(state))
             \/ (/\ mode = "stream" /\ svc = "yielded"
                 /\ Ran("validation")
                 /\ events[Len(events)].type = "result"
                 /\ cache'[prompt] = _build_response(state))
             \/ (/\ peer.svc = "storing"
                 /\ "validation" \in Range(peer.ran)
                 /\ cache'[prompt] = _build_response(peer.state))]_vars

\* two plan calls under way at once: both missed, both ran the eleven stages,
\* neither has answered and the cache holds nothing yet
C21_Witness ==
    /\ mode = "plan"
    /\ svc = "running" /\ node = "END"
    /\ Len(ran) = 11
    /\ peer.svc = "running" /\ peer.node = "END"
    /\ Len(peer.ran) = 11
    /\ prompt \notin DOMAIN cache
    /\ response = <<>>
    /\ peer.response = <<>>

\* C22: once the Confidence Scorer has run, each of the eight confidence
\* scores lies in [0, 1], and overall is 0.20 intent + 0.15 route
\* + 0.15 flight + 0.15 hotel + 0.15 activity + 0.10 budget + 0.10 risk
\* rounded to two decimals.  (Scores in hundredths; the weighted sum in
\* ten-thousandths, which rounding moves by half a hundredth at most.)
C22_ConfidenceScoresBounded ==
    Ran("confidence") =>
        LET cs == state.confidence_scores
            weighted == 20 * cs.intent_parsing + 15 * cs.route_planning
                          + 15 * cs.flight_data + 15 * cs.hotel_data
                          + 15 * cs.activity_data + 10 * cs.budget_optimization
                          + 10 * cs.risk_assessment
        IN  /\ DOMAIN cs = { "intent_parsing", "route_planning", "flight_data",
                             "hotel_data", "activity_data", "budget_optimization",
                             "risk_assessment", "overall" }
            /\ \A k \in DOMAIN cs : 0 <= cs[k] /\ cs[k] <= 100
            /\ Abs(100 * cs.overall - weighted) <= 50

\* a scored run whose parts differ: the intent score below the route score,
\* the budget score at its ceiling, the overall score between them
C22_Witness ==
    /\ LastRan = "confidence"
    /\ state.confidence_scores.intent_parsing < state.confidence_scores.route_planning
    /\ state.confidence_scores.budget_optimization = 100
    /\ state.confidence_scores.overall > state.confidence_scores.intent_parsing
    /\ state.confidence_scores.overall < 100

\* C23: for every pair of cities the curated table lists, in either
\* direction, the lookup returns the same distance for the two names given
\* one way round and the other, and that distance is the table's entry for
\* the pair, whatever the letter case of the names and the blanks around them.
C23_DistanceSymmetric ==
    \A i \in DOMAIN call :
        /\ call[i].there # <<>> =>
               call[i].there = << _DISTANCE_KM[call[i].pair[1]][call[i].pair[2]] >>
        /\ call[i].back # <<>> =>
               call[i].back = << _DISTANCE_KM[call[i].pair[1]][call[i].pair[2]] >>
        /\ (call[i].there # <<>> /\ call[i].back # <<>>) =>
               call[i].there = call[i].back

\* Delhi and Kyoto, in capitals and with blanks around the names: the table
\* lists the pair under Delhi only, and both lookups have returned its entry
C23_Witness ==
    /\ call # <<>>
    /\ call[1].origin = " DELHI "
    /\ call[1].dest = " Kyoto"
    /\ call[1].there = << 5720 >>
    /\ call[1].back = << 5720 >>
    /\ "kyoto" \notin DOMAIN _DISTANCE_KM
    /\ _haversine("delhi", "kyoto") # 5720

\* C24 (as claimed): every UserIntent the Intent Extractor produces has
\* duration_days >= 1 and traveler_count >= 1, whatever the text, a text that
\* states 0 days or 0 people included.
C24_DurationAndTravelersPositive ==
    Ran("intent_extractor") =>
        /\ state.intent.duration_days >= 1
        /\ state.intent.traveler_count >= 1

\* C25: after Planner, Flight, Hotel, Experience and Budget Optimizer have run
\* in that order on a request with a budget, total_cost is strictly positive
\* and equals cost_breakdown.total_estimated, however small the budget
C25_TotalCostPositiveAndEqual ==
    (svc = "running" /\ LastRan = "budget" /\ Ceiling > 0
       /\ Ran("planner") /\ Ran("flight") /\ Ran("hotel") /\ Ran("experience"))
      => /\ state.total_cost > 0
         /\ state.total_cost = state.cost_breakdown.total_estimated

C25_Witness ==
    /\ svc = "running" /\ LastRan = "budget" /\ Ceiling > 0
    /\ Ran("planner") /\ Ran("flight") /\ Ran("hotel") /\ Ran("experience")
    /\ opt.over
    /\ state.total_cost > Ceiling
    /\ state.total_cost = state.cost_breakdown.total_estimated

C27Pools == ActivityPools(state.day_by_day_itinerary, state.experiences # <<>>)

C27Trace ==
    ExperienceAfter(state.day_by_day_itinerary, state.intent, C27Pools)

C27Day(trace, d) ==
    LET days == state.day_by_day_itinerary
        ck == Lower(days[d].city)
        ranked == ExperienceRanked(C27Pools[ck], state.intent.interests)
        before == trace[d]
        n_per_day == ExperiencePerDay(d > 1 /\ Lower(days[d - 1].city) # ck,
                                      is_relaxation(state.intent.trip_type),
                                      Len(ranked))
        \* the last earlier day of this city that ended with a reset
        resets == { e \in 1..(d - 1) : /\ Lower(days[e].city) = ck
                                       /\ trace[e + 1].city_used[ck] = {} }
        last == IF resets = {} THEN 0
                ELSE CHOOSE e \in resets : \A x \in resets : x <= e
    IN  [ pool |-> Names(C27Pools[ck]),
          before |-> before.city_used[ck],
          after |-> trace[d + 1].city_used[ck],
          chosen |-> Range(days[d].activities),
          recomputed |-> Range(trace[d + 1].days[d].activities),
          n_per_day |-> n_per_day,
          first |-> Names(ExperienceFirstPass(
                              ranked, before.city_offset[ck],
                              before.city_used[ck], n_per_day, 0, <<>>)),
          since |-> UNION { Range(days[e].activities) :
                              e \in { x \in (last + 1)..d :
                                        Lower(days[x].city) = ck } } ]

\* what the claim says of one processed day
C27DayHolds(r) ==
    /\ r.recomputed = r.chosen
    /\ r.after \subseteq r.pool /\ r.after # r.pool
    /\ r.after = {} => r.pool \subseteq r.since
    /\ r.after # {} => r.after = r.before \cup r.chosen
    /\ r.first \cap r.before = {}
    /\ r.chosen \cap r.before # {}
         => Cardinality(r.pool \ r.before) < r.n_per_day

\* C27: for each city the activity search has a pool for, after every
\* processed day the used set is a proper subset of the pool; between two
\* resets every activity of the pool is chosen at least once; and an activity
\* of the used set is chosen again only by the fill step, on a day when fewer
\* unused activities remain than the day asks for.  (search_activities
\* answers every city with a pool that is not empty; a lookup that came back
\* empty is a failed lookup and not the subject of this statement.)
C27_UsedProperSubsetOfPool ==
    (svc = "running" /\ LastRan = "experience") =>
        \A trace \in { C27Trace } :
            \A d \in DOMAIN state.day_by_day_itinerary :
                \A r \in { C27Day(trace, d) } :
                    r.pool # {} => C27DayHolds(r)

\* a third day in one city: the first pass finds fewer unused activities than
\* asked, the fill step repeats a used one, and the used set is emptied
C27_Witness ==
    /\ svc = "running" /\ LastRan = "experience"
    /\ \E trace \in { C27Trace } :
         \E d \in DOMAIN state.day_by_day_itinerary :
           \E r \in { C27Day(trace, d) } :
               /\ r.pool # {}
               /\ r.before # {}
               /\ r.chosen \cap r.before # {}
               /\ Cardinality(r.pool \ r.before) < r.n_per_day
               /\ r.after = {}
               /\ r.pool \subseteq r.since

\* the nights _propagate_accommodation divides by
C28Nights ==
    SumSeq([ i \in DOMAIN state.stay_recommendations |->
               HotelNights(state.intent.duration_days,
                           Len(state.stay_recommendations), i - 1) ])

\* x is n / d rounded to a whole number, in thousandths
C28Rounded(x, n, d) ==
    d > 0 /\ x % Milli = 0 /\ 2 * Abs(x * d - n) <= Milli * d

\* C28: at every stage boundary from the end of Experience to the end of
\* Validation the days' costs add up to activities_estimated within half a
\* rupee per day, and once the optimizer has reduced the plan every day costs
\* round(activities / days) and every stay has the nightly budget
\* round(accommodation / total nights)
C28_ArtefactsFollowBreakdown ==
    (svc = "running" /\ Ran("experience")) =>
        LET days == state.day_by_day_itinerary
            stays == state.stay_recommendations
            cb == state.cost_breakdown
            sum == SumSeq([ i \in DOMAIN days |-> days[i].estimated_cost_inr ])
        IN  /\ 2 * Abs(sum - cb.activities_estimated) <= Milli * Len(days)
            /\ (Ran("budget") /\ opt.rounds > 0) =>
                 /\ \A i \in DOMAIN days :
                        C28Rounded(days[i].estimated_cost_inr,
                                   cb.activities_estimated, Len(days))
                 /\ \A i \in DOMAIN stays :
                        C28Rounded(stays[i].budget_per_night_inr,
                                   cb.accommodation_estimated, C28Nights)

\* the list with the price at position i replaced by p
C29With(flights, i, p) == [ flights EXCEPT ![i] = p ]

\* C29: when the flight list holds a non-positive price next to a positive
\* one, the scorer's flight-data score is lower than for the same list with
\* that price made positive, the smallest and largest positive price staying
\* what they were
C29_NonPositivePricePenalised ==
    (svc = "running" /\ LastRan = "confidence") =>
        LET flights == state.flight_options
            pos == { flights[j] : j \in { x \in DOMAIN flights : flights[x] > 0 } }
        IN  \A i \in DOMAIN flights :
                (flights[i] <= 0 /\ pos # {}) =>
                    \A p \in pos :
                        state.confidence_scores.flight_data
                          < ConfidenceFlight(C29With(flights, i, p))

\* profiles on both sides of every threshold of the note
C30Profiles ==
    [ rain_chance : {35, 36, 50, 51}, avg_temp_c : {4, 5, 14, 15, 33, 34, 38, 39} ]

\* the note the claim's priority order gives a profile
C30NoteInOrder(w, note) ==
    /\ w.rain_chance > 50 => note = "Very likely rain"
    /\ (w.rain_chance > 35 /\ w.rain_chance <= 50) => note = "Possible rain"
    /\ w.rain_chance <= 35 =>
         /\ w.avg_temp_c > 38 => note = "Extreme heat"
         /\ (w.avg_temp_c > 33 /\ w.avg_temp_c <= 38) => note = "Hot"
         /\ w.avg_temp_c < 5 => note = "Very cold"
         /\ (w.avg_temp_c >= 5 /\ w.avg_temp_c < 15) => note = "Cool"
         /\ (w.avg_temp_c >= 15 /\ w.avg_temp_c <= 33) => note = "Pleasant"

\* C30: the Risk stage gives every day the weather note of its city's profile,
\* chosen in the order rain > 50%, rain > 35%, temp > 38, temp > 33, temp < 5,
\* temp < 15, else pleasant; it overwrites the Allocator's arrival placeholder,
\* which no day carries from then on; and it leaves the day number, city,
\* activities and cost of every day as they were
C30_RiskWritesWeatherNotes ==
    /\ [][ (svc = "running" /\ node = "risk" /\ ran' = Append(ran, "risk")) =>
             LET before == state.day_by_day_itinerary
                 after == state'.day_by_day_itinerary
             IN  /\ Len(after) = Len(before)
                 /\ \A i \in DOMAIN before :
                        /\ after[i].day = before[i].day
                        /\ after[i].city = before[i].city
                        /\ after[i].activities = before[i].activities
                        /\ after[i].estimated_cost_inr
                             = before[i].estimated_cost_inr
                        /\ after[i].weather_note
                             = WeatherNote(get_weather_risk(after[i].city))
                        /\ C30NoteInOrder(get_weather_risk(after[i].city),
                                          after[i].weather_note)
                 /\ \A w \in C30Profiles : C30NoteInOrder(w, WeatherNote(w)) ]_vars
    /\ []((svc = "running" /\ Ran("risk")) =>
             \A i \in DOMAIN state.day_by_day_itinerary :
                 state.day_by_day_itinerary[i].weather_note # ArrivalNote)

\* a second city's arrival day, placeholder as the optimizer saw it, weather
\* note after the Risk stage
C30_Witness ==
    /\ svc = "running" /\ LastRan = "risk"
    /\ \E i \in DOMAIN state.day_by_day_itinerary :
           /\ i > 1
           /\ opt.days[i].weather_note = ArrivalNote
           /\ opt.days[i].city = state.day_by_day_itinerary[i].city
           /\ state.day_by_day_itinerary[i].weather_note = "Pleasant"
           /\ state.day_by_day_itinerary[i].activities # <<>>

====
